---- MODULE Spec2Model ----
(***************************************************************************)
(* A model of curly's OpenAPI-to-.curl generator (cmd/generate.go) and of  *)
(* the executor that reads and runs its output (cmd/root.go).              *)
(*                                                                         *)
(* Ten specifications share the variables below:                           *)
(*   SpecSchema  generateExampleFromSchema applied to a schema graph       *)
(*   SpecPath    extractPathParams and the URL rewriting of                *)
(*               buildCurlCommand applied to a path template               *)
(*   Spec        generateCollection run twice over one description, and    *)
(*               applyEnvironmentVars applied to an artifact it wrote      *)
(*   SpecOperation  extractRequestBody and the body of maybeMake applied   *)
(*               to one operation                                          *)
(*   SpecBodyVars   extractBodyVariablesFromAny applied to a value         *)
(*   SpecSanitize   the file-name sanitizer applied to a path              *)
(*   SpecParams  extractRequestParameters applied to a path template and   *)
(*               an operation's declared parameters                        *)
(*   SpecExec    execCmd: batches of executions, the interrupt handler     *)
(*               and the statistics the executions record                  *)
(*   SpecApply   applyEnvironmentVars applied to the text of a file        *)
(*   SpecLaunch  launchCollection: the selection, the temporary copy,      *)
(*               the editor and the read of the edited copy                *)
(* Each specification holds the variables of the others constant.          *)
(***************************************************************************)
EXTENDS Integers, Sequences, FiniteSets, TLC

VARIABLES
    schemas,     \* the schema graph, schema id -> *openapi3.Schema
    root,        \* SpecSchema: the schema generateExampleFromSchema is called on
    genResult,   \* SpecSchema: what the call returned
    spc,         \* SpecSchema: "ready", "returned", or "crashed" (fatal stack overflow)
    path,        \* SpecPath: the path template, a sequence of characters
    pathParams,  \* SpecPath: the result of extractPathParams(path)
    urlPath,     \* SpecPath: urlPath of buildCurlCommand
    ppc,         \* SpecPath: "ready", "extracted", "built"
    doc,         \* Spec: the loaded description, [servers, paths]
    faults,      \* Spec: what fails in this environment, [load, mkdir, unwritable]
    gpc,         \* Spec: where generateCollection stands
    pending,     \* Spec: the paths the range over doc.Paths has not visited yet
    curPath,     \* Spec: the path of the current iteration
    curVerb,     \* Spec: the index in Verbs of the next maybeMake call
    outDir,      \* Spec: the output directory, [exists, files]
    written,     \* Spec: the successful writes of artifacts in this run, in order
    warnings,    \* Spec: the number of warnings printed in this run
    run,         \* Spec: 1 in the first run of generateCollection, 2 in the second
    firstRun,    \* Spec: the files of the output directory after the first run
    retval,      \* Spec: what generateCollection returned in this run
    envContent,  \* Spec: the content applyEnvironmentVars was called on
    envVarsIn,   \* Spec: the environment applyEnvironmentVars was called with
    envResult,   \* Spec: the lines applyEnvironmentVars returned
    call,        \* SpecOperation: the operation and the arguments it is rendered with
    bodyResult,  \* SpecOperation: what extractRequestBody returned
    artifact,    \* SpecOperation: the text maybeMake hands to write, as lines
    opc,         \* SpecOperation: "ready", "extracted", "rendered"
    exampleIn,   \* SpecBodyVars: the value extractBodyVariablesFromAny is called on
    bodyVarsOut, \* SpecBodyVars: the map it returned
    rawPath,     \* SpecSanitize: the path sanitize is called on
    sanitized,   \* SpecSanitize: what it returned
    paramsCall,  \* SpecParams: the path template and the operation of the call
    paramSet,    \* SpecParams: the parameterSet extractRequestParameters returned
    times,       \* SpecExec: the number of executions asked for
    parallel,    \* SpecExec: the number of concurrent executions per batch
    epc,         \* SpecExec: where the goroutine of execCmd stands
    batchNum,    \* SpecExec: the loop variable of execCmd
    batchSize,   \* SpecExec: batchSize of the current iteration
    remaining,   \* SpecExec: remaining of execCmd
    completed,   \* SpecExec: completed of execCmd
    workers,     \* SpecExec: the goroutines of the current batch, [pc, seen]
    stats,       \* SpecExec: the ExecutionStats, [Success, Failed, Errors]
    errorsMux,   \* SpecExec: the holder of stats.errorsMux, 0 when unlocked
    sig,         \* SpecExec: "none", "pending" (in sigCh), "cancelled" (cancel() called)
    execRet,     \* SpecExec: what execCmd returned
    started,     \* SpecExec: the number of calls of execShellCommand so far
    inBatch,     \* SpecExec: the number of those calls in the current batch
    calls,       \* SpecExec: the numbers of RecordSuccess and RecordFailure calls so far
    applyIn,     \* SpecApply: the content and the environment of the call
    applyOut,    \* SpecApply: the string applyEnvironmentVars returned
    launchIn,    \* SpecLaunch: the selected file, the flags and what fails
    fsys,        \* SpecLaunch: the files of the collection directory, name -> content
    lpc,         \* SpecLaunch: where launchCollection stands
    deferred,    \* SpecLaunch: whether the deferred os.Remove(tmpFile) is registered
    launchRet    \* SpecLaunch: what launchCollection returned

schemaVars == <<root, genResult, spc>>
pathVars == <<path, pathParams, urlPath, ppc>>
genVars == <<doc, faults, gpc, pending, curPath, curVerb, outDir, written, warnings, run,
             firstRun, retval>>
envVars == <<envContent, envVarsIn, envResult>>
opVars == <<call, bodyResult, artifact, opc>>
paramVars == <<paramsCall, paramSet>>
execVars == <<times, parallel, epc, batchNum, batchSize, remaining, completed, workers, stats,
              errorsMux, sig, execRet, started, inBatch, calls>>
applyVars == <<applyIn, applyOut>>
launchVars == <<launchIn, fsys, lpc, deferred, launchRet>>
laterVars == <<paramVars, execVars, applyVars, launchVars>>
unitVars == <<opVars, exampleIn, bodyVarsOut, rawPath, sanitized, laterVars>>
vars == <<schemas, schemaVars, pathVars, genVars, envVars, unitVars>>

(***************************************************************************)
(* Go values of type any, as the generator builds them.                    *)
(***************************************************************************)
NilV == [k |-> "nil"]
StrV(s) == [k |-> "string", s |-> s]
IntV(n) == [k |-> "int", n |-> n]
\* a float64, in tenths: FloatV(0) is 0.0, FloatV(15) is 1.5
FloatV(tenths) == [k |-> "float64", tenths |-> tenths]
BoolV(b) == [k |-> "bool", b |-> b]
\* map[string]any: a function from the keys to values
ObjV(m) == [k |-> "map", m |-> m]
\* []any
ArrV(a) == [k |-> "slice", a |-> a]
EmptyMap == [n \in {} |-> NilV]

\* The Go runtime ends the process with "fatal error: stack overflow" when a
\* goroutine's stack passes its limit; a call chain of more than MaxStackDepth
\* frames of generateExampleFromSchema stands for that.
MaxStackDepth == 4
StackOverflow == [k |-> "fatal error: stack overflow"]

(***************************************************************************)
(* Schemas.  A schema reference is a schema id, or NilRef for a nil        *)
(* *SchemaRef (or one whose Value is nil).  Type "" is a nil Type.         *)
(***************************************************************************)
NilRef == 0
SchemaIds == {1, 2, 3}
Kinds == {"string", "integer", "number", "boolean", "object", "array"}
PropNames == {"id", "tag"}

ExampleOf(type) ==
    CASE type = "integer" -> IntV(42)
      [] type = "number" -> FloatV(15)
      [] type = "boolean" -> BoolV(FALSE)
      [] type = "object" -> ObjV([id |-> IntV(7)])
      [] type = "array" -> ArrV(<<StrV("x")>>)
      [] OTHER -> StrV("example-value")

DefaultOf(type) ==
    CASE type = "integer" -> IntV(5)
      [] type = "number" -> FloatV(25)
      [] type = "boolean" -> BoolV(FALSE)
      [] OTHER -> StrV("default-value")

EnumOf(type) ==
    CASE type = "integer" -> <<IntV(3), IntV(4)>>
      [] OTHER -> <<StrV("active"), StrV("inactive")>>

Hints == [ex : BOOLEAN, def : BOOLEAN, enum : BOOLEAN]
NoHints == [ex |-> FALSE, def |-> FALSE, enum |-> FALSE]

MkSchema(type, h, props, items) ==
    [type |-> type,
     example |-> IF h.ex THEN ExampleOf(type) ELSE NilV,
     default |-> IF h.def THEN DefaultOf(type) ELSE NilV,
     enum |-> IF h.enum THEN EnumOf(type) ELSE <<>>,
     properties |-> props,
     items |-> items]

\* the values the variables of a specification hold while another one runs
NotCalled == [k |-> "not called"]
NotApplied == <<[k |-> "not applied"]>>
NoFiles == [n \in {} |-> <<>>]
SchemaIdle ==
    /\ root = NilRef
    /\ genResult = NotCalled
    /\ spc = "idle"
PathIdle ==
    /\ path = <<>>
    /\ pathParams = <<>>
    /\ urlPath = <<>>
    /\ ppc = "idle"
GenIdle ==
    /\ doc = [servers |-> <<>>, paths |-> NoFiles]
    /\ faults = [load |-> FALSE, mkdir |-> FALSE, unwritable |-> {}]
    /\ gpc = "idle"
    /\ pending = {}
    /\ curPath = <<>>
    /\ curVerb = 0
    /\ outDir = [exists |-> FALSE, files |-> NoFiles]
    /\ written = <<>>
    /\ warnings = 0
    /\ run = 0
    /\ firstRun = NoFiles
    /\ retval = "none"
    /\ envContent = <<>>
    /\ envVarsIn = NoFiles
    /\ envResult = NotApplied

OpIdle ==
    /\ call = NotCalled
    /\ bodyResult = NotCalled
    /\ artifact = <<>>
    /\ opc = "idle"
BodyVarsIdle ==
    /\ exampleIn = NotCalled
    /\ bodyVarsOut = NotCalled
NotSanitized == <<"not called">>
SanitizeIdle ==
    /\ rawPath = <<>>
    /\ sanitized = NotSanitized
ParamsIdle ==
    /\ paramsCall = NotCalled
    /\ paramSet = NotCalled
ExecIdle ==
    /\ times = 0 /\ parallel = 0 /\ epc = "idle"
    /\ batchNum = 0 /\ batchSize = 0 /\ remaining = 0 /\ completed = 0
    /\ workers = <<>>
    /\ stats = [Success |-> 0, Failed |-> 0, Errors |-> <<>>]
    /\ errorsMux = 0
    /\ sig = "none"
    /\ execRet = "none"
    /\ started = 0 /\ inBatch = 0
    /\ calls = [RecordSuccess |-> 0, RecordFailure |-> 0]
\* the value of a variable that will hold a string, before the call
NotReturned == <<"not returned">>
ApplyIdle ==
    /\ applyIn = NotCalled
    /\ applyOut = NotReturned
LaunchIdle ==
    /\ launchIn = NotCalled
    /\ fsys = NoFiles
    /\ lpc = "idle"
    /\ deferred = FALSE
    /\ launchRet = NotCalled
LaterIdle == ParamsIdle /\ ExecIdle /\ ApplyIdle /\ LaunchIdle
UnitIdle == OpIdle /\ BodyVarsIdle /\ SanitizeIdle /\ LaterIdle

\* the Properties maps over a subset of PropNames in which "id" refers to one
\* of idTargets and "tag" to one of tagTargets
PropMaps(idTargets, tagTargets) ==
    UNION {{f \in [D -> {NilRef} \cup SchemaIds] :
               \A n \in D : f[n] \in (IF n = "id" THEN idTargets ELSE tagTargets)} :
           D \in SUBSET PropNames}

(***************************************************************************)
(* generateExampleFromSchema (generate.go:547-663).  G is the schema graph,*)
(* s the schema reference, d the number of frames of the function already  *)
(* on the stack.                                                           *)
(***************************************************************************)
RECURSIVE generateExampleFromSchema(_, _, _)

\* what the property loop leaves in example[propName]; NoEntry when it sets nothing
NoEntry == [k |-> "no entry"]

\* generate.go:579-624, the body of the loop over schema.Properties
propertyExample(G, propSchemaRef, d) ==
    LET propSchema == G[propSchemaRef] IN
    IF propSchema.example # NilV THEN propSchema.example
    ELSE IF propSchema.type = "" THEN NoEntry
    ELSE IF propSchema.type = "string" THEN
        IF Len(propSchema.enum) > 0 THEN propSchema.enum[1]
        ELSE IF propSchema.default # NilV THEN propSchema.default
        ELSE StrV("string")
    ELSE IF propSchema.type \in {"integer", "number"} THEN
        IF propSchema.default # NilV THEN propSchema.default ELSE IntV(0)
    ELSE IF propSchema.type = "boolean" THEN
        IF propSchema.default # NilV THEN propSchema.default ELSE BoolV(TRUE)
    ELSE IF propSchema.type = "array" THEN
        LET arrayExample == generateExampleFromSchema(G, propSchemaRef, d + 1)
        IN IF arrayExample # NilV THEN arrayExample ELSE ArrV(<<>>)
    ELSE IF propSchema.type = "object" THEN
        LET nested == generateExampleFromSchema(G, propSchemaRef, d + 1)
        IN IF nested # NilV THEN nested ELSE ObjV(EmptyMap)
    ELSE NoEntry

\* a variant of arrayExampleFromSchema that returns nil where the item
\* synthesizes to nil
arrayExampleNilForNilItem(G, schema, d) ==
    IF schema.items # NilRef
    THEN LET item == generateExampleFromSchema(G, schema.items, d + 1)
         IN IF item = StackOverflow THEN StackOverflow
            ELSE IF item # NilV THEN ArrV(<<item>>)
            ELSE NilV
    ELSE ArrV(<<>>)

\* generate.go:553-562
arrayExampleFromSchema(G, schema, d) ==
    IF schema.items # NilRef
    THEN LET item == generateExampleFromSchema(G, schema.items, d + 1)
         IN IF item = StackOverflow THEN StackOverflow
            ELSE IF item # NilV THEN ArrV(<<item>>)
            ELSE ArrV(<<>>)
    ELSE ArrV(<<>>)

\* generate.go:574-631, the loop over schema.Properties and what follows it
objectFromProperties(G, schema, d) ==
    LET visited == {n \in DOMAIN schema.properties : schema.properties[n] # NilRef}
        entry == [n \in visited |-> propertyExample(G, schema.properties[n], d)]
        set == {n \in visited : entry[n] # NoEntry}
    IN IF \E n \in visited : entry[n] = StackOverflow THEN StackOverflow
       ELSE IF set = {} THEN NilV
       ELSE ObjV([n \in set |-> entry[n]])

\* a variant of objectExampleFromSchema that returns the schema's example
\* before it looks at the properties
objectExampleHonouringExample(G, schema, d) ==
    IF schema.example # NilV THEN schema.example
    ELSE IF Cardinality(DOMAIN schema.properties) = 0 THEN NilV
    ELSE objectFromProperties(G, schema, d)

\* generate.go:565-632
objectExampleFromSchema(G, schema, d) ==
    IF Cardinality(DOMAIN schema.properties) = 0 THEN NilV
    ELSE objectFromProperties(G, schema, d)

\* generate.go:635-662
primitiveExampleFromSchema(schema) ==
    IF schema.type = "string" THEN
        IF schema.example # NilV THEN schema.example
        ELSE IF Len(schema.enum) > 0 THEN schema.enum[1]
        ELSE StrV("string")
    ELSE IF schema.type = "integer" THEN
        IF schema.example # NilV THEN schema.example ELSE IntV(0)
    ELSE IF schema.type = "number" THEN
        IF schema.example # NilV THEN schema.example ELSE FloatV(0)
    ELSE IF schema.type = "boolean" THEN
        IF schema.example # NilV THEN schema.example ELSE BoolV(TRUE)
    ELSE NilV

generateExampleFromSchema(G, s, d) ==
    IF s = NilRef THEN NilV
    ELSE IF d >= MaxStackDepth THEN StackOverflow
    ELSE IF G[s].type = "array" THEN arrayExampleFromSchema(G, G[s], d)
    ELSE IF G[s].type = "object" THEN objectExampleFromSchema(G, G[s], d)
    ELSE primitiveExampleFromSchema(G[s])

(***************************************************************************)
(* SpecSchema: generateExampleFromSchema is called once on schema 1 of a   *)
(* graph of three schemas.  The graph may be cyclic: the loader resolves a *)
(* $ref to a pointer, so a property or the items of a schema may be one of *)
(* its ancestors.                                                          *)
(***************************************************************************)
Primitives == {"string", "integer", "number", "boolean"}

RootShapes ==
    {MkSchema(t, h, EmptyMap, NilRef) : t \in Primitives \cup {""}, h \in Hints}
    \cup {MkSchema("object", x[1], x[2], NilRef) :
            x \in Hints \X PropMaps({NilRef, 1, 2, 3}, {2, 3})}
    \cup {MkSchema("array", x[1], EmptyMap, x[2]) : x \in Hints \X {NilRef, 1, 2, 3}}

ExampleOnly == {h \in Hints : ~h.def /\ ~h.enum}

InnerShapes ==
    {MkSchema(t, h, EmptyMap, NilRef) : t \in Primitives \cup {""}, h \in Hints}
    \cup {MkSchema("object", x[1], x[2], NilRef) :
            x \in ExampleOnly \X PropMaps({1, 2, 3}, {})}
    \cup {MkSchema("array", x[1], EmptyMap, x[2]) : x \in ExampleOnly \X {NilRef, 1, 2, 3}}

LeafShapes ==
    {MkSchema(t, h, EmptyMap, NilRef) : t \in {"", "string", "object"}, h \in ExampleOnly}
    \cup {MkSchema("array", NoHints, EmptyMap, 2),
          MkSchema("object", NoHints, [id |-> 1], NilRef)}

InitSchema ==
    /\ schemas \in {<<r, i, l>> : r \in RootShapes, i \in InnerShapes, l \in LeafShapes}
    /\ root = 1
    /\ genResult = NotCalled
    /\ spc = "ready"
    /\ PathIdle
    /\ GenIdle
    /\ UnitIdle

CallGenerateExample ==
    /\ spc = "ready"
    /\ LET result == generateExampleFromSchema(schemas, root, 0)
       IN /\ genResult' = result
          /\ spc' = IF result = StackOverflow THEN "crashed" ELSE "returned"
    /\ UNCHANGED <<unitVars, schemas, root, pathVars, genVars, envVars>>

NextSchema == CallGenerateExample

SpecSchema == InitSchema /\ [][NextSchema]_vars

(***************************************************************************)
(* Strings are sequences of pieces.  Text that comes from the description  *)
(* (paths, parameter names, body keys) is held character by character;     *)
(* literals of the generator that are only copied are one piece each.      *)
(***************************************************************************)
Lower == <<"a", "b", "c", "d", "e", "f", "g", "h", "i", "j", "k", "l", "m",
           "n", "o", "p", "q", "r", "s", "t", "u", "v", "w", "x", "y", "z">>
Upper == <<"A", "B", "C", "D", "E", "F", "G", "H", "I", "J", "K", "L", "M",
           "N", "O", "P", "Q", "R", "S", "T", "U", "V", "W", "X", "Y", "Z">>
Digits == <<"0", "1", "2", "3", "4", "5", "6", "7", "8", "9">>
Range(f) == {f[x] : x \in DOMAIN f}
\* a lower-case letter becomes its upper-case letter; every other piece of a
\* string (other characters, and the generator's literals, which hold no
\* lower-case letter where they are uppercased) is unchanged
ToUpperChar(c) ==
    IF c \in Range(Lower) THEN Upper[CHOOSE x \in 1..Len(Lower) : Lower[x] = c] ELSE c
\* strings.ToUpper
ToUpper(str) == [x \in 1..Len(str) |-> ToUpperChar(str[x])]

\* strings.ReplaceAll(str, old, new) for a non-empty old: the non-overlapping
\* occurrences of old, found from the left, each replaced by new
RECURSIVE ReplaceAll(_, _, _)
ReplaceAll(str, old, new) ==
    IF Len(str) < Len(old) THEN str
    ELSE IF SubSeq(str, 1, Len(old)) = old
         THEN new \o ReplaceAll(SubSeq(str, Len(old) + 1, Len(str)), old, new)
         ELSE <<str[1]>> \o ReplaceAll(Tail(str), old, new)

\* the index of the first "}" after position x of str, 0 when there is none
FirstClose(str, x) ==
    LET closes == {j \in (x + 1)..Len(str) : str[j] = "}"}
    IN IF closes = {} THEN 0 ELSE CHOOSE j \in closes : \A c \in closes : j <= c

\* regexp `\{([^}]+)\}`, FindAllStringSubmatch(path, -1) from position x on:
\* the leftmost non-overlapping matches, as [from, to] index pairs
RECURSIVE FindAllMatches(_, _)
FindAllMatches(str, x) ==
    IF x > Len(str) THEN <<>>
    ELSE IF str[x] = "{" /\ FirstClose(str, x) >= x + 2
         THEN <<[from |-> x, to |-> FirstClose(str, x)]>>
                  \o FindAllMatches(str, FirstClose(str, x) + 1)
         ELSE FindAllMatches(str, x + 1)

\* generate.go:369-379
extractPathParams(str) ==
    LET matches == FindAllMatches(str, 1)
    IN [x \in 1..Len(matches) |-> SubSeq(str, matches[x].from + 1, matches[x].to - 1)]

\* generate.go:293-296, the loop of buildCurlCommand that rewrites urlPath
RECURSIVE substitutePathParams(_, _)
substitutePathParams(url, params) ==
    IF params = <<>> THEN url
    ELSE substitutePathParams(
             ReplaceAll(url, <<"{">> \o Head(params) \o <<"}">>,
                        <<"$", "{">> \o ToUpper(Head(params)) \o <<"}">>),
             Tail(params))

(***************************************************************************)
(* SpecPath: extractRequestParameters extracts the path parameters of a    *)
(* path template and buildCurlCommand rewrites the template with them.     *)
(***************************************************************************)
MaxPathLen == 6
PathChars == {"/", "{", "}", "i", "I"}
\* the templates "/" + rest with rest of at most MaxPathLen characters
PathTemplates ==
    UNION {{<<"/">> \o rest : rest \in [1..n -> PathChars]} : n \in 0..MaxPathLen}

InitPath ==
    /\ path \in PathTemplates
    /\ pathParams = <<>>
    /\ urlPath = <<>>
    /\ ppc = "ready"
    /\ schemas = <<>>
    /\ SchemaIdle
    /\ GenIdle
    /\ UnitIdle

\* generate.go:109 and 163-170
ExtractPathParams ==
    /\ ppc = "ready"
    /\ pathParams' = extractPathParams(path)
    /\ ppc' = "extracted"
    /\ UNCHANGED <<unitVars, path, urlPath, schemas, schemaVars, genVars, envVars>>

\* generate.go:114 and 292-298
BuildCurlCommand ==
    /\ ppc = "extracted"
    /\ urlPath' = substitutePathParams(path, pathParams)
    /\ ppc' = "built"
    /\ UNCHANGED <<unitVars, path, pathParams, schemas, schemaVars, genVars, envVars>>

NextPath == ExtractPathParams \/ BuildCurlCommand

SpecPath == InitPath /\ [][NextPath]_vars

(***************************************************************************)
(* Text.  A bytes.Buffer is the sequence of the lines written so far, the  *)
(* last one still open; a formatted text is the sequence of the pieces     *)
(* between its newlines.                                                   *)
(***************************************************************************)
EmptyBuffer == <<<<>>>>

\* fmt.Fprintf(curl, ...): the first piece continues the open line, every
\* further piece starts a new line
Fprintf(buf, text) ==
    SubSeq(buf, 1, Len(buf) - 1) \o <<buf[Len(buf)] \o Head(text)>> \o Tail(text)

\* the concatenation of the strings of a sequence
RECURSIVE Concat(_)
Concat(strs) == IF strs = <<>> THEN <<>> ELSE Head(strs) \o Concat(Tail(strs))

\* strings.Join(strs, sep)
RECURSIVE Join(_, _)
Join(strs, sep) ==
    IF strs = <<>> THEN <<>>
    ELSE IF Len(strs) = 1 THEN Head(strs)
    ELSE Head(strs) \o sep \o Join(Tail(strs), sep)

\* the literals that description text can coincide with, character by character
VariablesMarker == <<"#", " ", "V", "a", "r", "i", "a", "b", "l", "e", "s">>
BASE_URL == <<"B", "A", "S", "E", "_", "U", "R", "L">>
\* ${NAME}
VarRef(name) == <<"$", "{">> \o name \o <<"}">>
\* NAME="VALUE"
ValueAssignment(name) == name \o <<"=", "\"", "VALUE", "\"">>

\* the characters description text is made of, in byte order
Ascii ==
    <<" ", "\"", "#", "$", "&", "-", ".", "/">> \o Digits \o <<":", "=", "?", "@">>
        \o Upper \o <<"_">> \o Lower \o <<"{", "}">>
Ord(c) == CHOOSE x \in 1..Len(Ascii) : Ascii[x] = c
\* a < b for Go strings
RECURSIVE StrLess(_, _)
StrLess(a, b) ==
    IF b = <<>> THEN FALSE
    ELSE IF a = <<>> THEN TRUE
    ELSE IF Head(a) = Head(b) THEN StrLess(Tail(a), Tail(b))
    ELSE Ord(Head(a)) < Ord(Head(b))

\* body keys are the property names of a value; each as characters
KeyChars(key) ==
    CASE key = "id" -> <<"i", "d">>
      [] key = "tag" -> <<"t", "a", "g">>
      [] key = "Id" -> <<"I", "d">>
      [] key = "B" -> <<"B">>
      [] key = "a" -> <<"a">>

\* sort.Strings over a set of keys
RECURSIVE SortKeys(_)
SortKeys(keys) ==
    IF keys = {} THEN <<>>
    ELSE LET least == CHOOSE k \in keys :
                          \A o \in keys \ {k} : StrLess(KeyChars(k), KeyChars(o))
         IN <<least>> \o SortKeys(keys \ {least})

(***************************************************************************)
(* The file-name sanitizer (generate.go:79-90).                            *)
(***************************************************************************)
RECURSIVE TrimLeft(_, _)
TrimLeft(str, c) == IF str # <<>> /\ Head(str) = c THEN TrimLeft(Tail(str), c) ELSE str
RECURSIVE TrimRight(_, _)
TrimRight(str, c) ==
    IF str # <<>> /\ str[Len(str)] = c
    THEN TrimRight(SubSeq(str, 1, Len(str) - 1), c)
    ELSE str
\* strings.Trim(str, c) for one character c
Trim(str, c) == TrimRight(TrimLeft(str, c), c)

\* the class [a-zA-Z0-9_\-\.]
FileNameChars == Range(Lower) \cup Range(Upper) \cup Range(Digits) \cup {"_", "-", "."}
IsFileNameChar(c) == c \in FileNameChars

\* a variant of sanitize that puts "_" where it deletes a character
sanitizeSubstituting(str) ==
    LET replaced == ReplaceAll(ReplaceAll(ReplaceAll(Trim(str, "/"),
                        <<"/">>, <<"_">>), <<"{">>, <<"_">>), <<"}">>, <<>>)
        kept == [x \in 1..Len(replaced) |->
                    IF IsFileNameChar(replaced[x]) THEN replaced[x] ELSE "_"]
    IN IF kept = <<>> THEN <<"r", "o", "o", "t">> ELSE kept

sanitize(str) ==
    LET replaced == ReplaceAll(ReplaceAll(ReplaceAll(Trim(str, "/"),
                        <<"/">>, <<"_">>), <<"{">>, <<"_">>), <<"}">>, <<>>)
        kept == SelectSeq(replaced, IsFileNameChar)
    IN IF kept = <<>> THEN <<"r", "o", "o", "t">> ELSE kept

\* generate.go:100
fileNameOf(method, pathTemplate) ==
    ToUpper(<<method>>) \o <<"_">> \o sanitize(pathTemplate) \o <<".", "c", "u", "r", "l">>

(***************************************************************************)
(* extractRequestParameters (generate.go:163-195).  A parameter is         *)
(* [value, name, in, schema]; value is FALSE for a nil paramRef.Value.     *)
(***************************************************************************)
IsQuery(param) == param.value /\ param.in = "query"
IsHeader(param) == param.value /\ param.in = "header"
IsFormData(param) == param.value /\ param.in = "formData"
QueryName(param) == ToUpper(param.name)
\* generate.go:184 without the strings.ReplaceAll
HeaderNameKeepingDash(param) == ToUpper(param.name)
HeaderName(param) == ToUpper(ReplaceAll(param.name, <<"-">>, <<"_">>))
NamesOf(params) == [x \in 1..Len(params) |-> params[x].name]

extractRequestParameters(pathTemplate, op) ==
    [pathParams |-> extractPathParams(pathTemplate),
     queryParams |-> LET ps == SelectSeq(op.parameters, IsQuery)
                     IN [x \in 1..Len(ps) |-> QueryName(ps[x])],
     headerParams |-> LET ps == SelectSeq(op.parameters, IsHeader)
                      IN [x \in 1..Len(ps) |-> HeaderName(ps[x])],
     formDataParams |-> LET ps == SelectSeq(op.parameters, IsFormData)
                        IN [x \in 1..Len(ps) |-> QueryName(ps[x])]]

(***************************************************************************)
(* Formatting of values (generate.go:381-544).                             *)
(***************************************************************************)
IsScalar(value) == value.k \in {"string", "int", "float64", "bool", "nil"}

\* a number as Go prints it with %v, %d or encoding/json
NumberText(value) ==
    IF value.k = "int" THEN <<ToString(value.n)>>
    ELSE IF value.tenths % 10 = 0 THEN <<ToString(value.tenths \div 10)>>
    ELSE <<ToString(value.tenths \div 10), ".", ToString(value.tenths % 10)>>

\* generate.go:427-444
formatVariableValue(value) ==
    IF value.k = "string" THEN <<"\"", value.s, "\"">>
    ELSE IF value.k = "bool" THEN <<"\"", IF value.b THEN "true" ELSE "false", "\"">>
    ELSE IF value.k = "nil" THEN <<"\"", "null", "\"">>
    ELSE <<"\"">> \o NumberText(value) \o <<"\"">>

\* a variant of extractBodyVariables that also takes the nested objects and
\* arrays
extractBodyVariablesWithNested(m) == m

\* generate.go:382-407 with prefix ""
extractBodyVariables(m) == [key \in {n \in DOMAIN m : IsScalar(m[n])} |-> m[key]]

\* generate.go:410-424
extractBodyVariablesFromAny(example) ==
    IF example.k = "map" THEN extractBodyVariables(example.m)
    ELSE IF example.k = "slice" /\ Len(example.a) > 0 /\ example.a[1].k = "map"
         THEN extractBodyVariables(example.a[1].m)
    ELSE EmptyMap

\* n copies of the two-space indent
Indent(n) == [x \in 1..(2 * n) |-> " "]
AppendToLast(lines, str) ==
    SubSeq(lines, 1, Len(lines) - 1) \o <<lines[Len(lines)] \o str>>

\* json.Marshal of a scalar
JSONScalar(value) ==
    IF value.k = "string" THEN <<"\"", value.s, "\"">>
    ELSE IF value.k = "bool" THEN <<IF value.b THEN "true" ELSE "false">>
    ELSE IF value.k = "nil" THEN <<"null">>
    ELSE NumberText(value)

\* a "," after the last line when more members follow
WithComma(lines, more) == IF more THEN AppendToLast(lines, <<",">>) ELSE lines
\* str in front of the first line
Prefixed(str, lines) == <<str \o Head(lines)>> \o Tail(lines)

\* json.MarshalIndent(value, prefix, "  ") as lines, for a value nested level
\* deep: the first line carries no prefix, map keys are sorted
RECURSIVE MarshalIndent(_, _, _)
marshalMember(key, value, prefix, level, more) ==
    WithComma(Prefixed(prefix \o Indent(level) \o <<"\"">> \o KeyChars(key)
                           \o <<"\"", ":", " ">>,
                       MarshalIndent(value, prefix, level)), more)
marshalMembers(m, keys, prefix, level) ==
    <<<<"{">>>>
        \o Concat([x \in 1..Len(keys) |->
                      marshalMember(keys[x], m[keys[x]], prefix, level + 1, x < Len(keys))])
        \o <<prefix \o Indent(level) \o <<"}">>>>
marshalItems(a, prefix, level) ==
    <<<<"[">>>>
        \o Concat([x \in 1..Len(a) |->
                      WithComma(Prefixed(prefix \o Indent(level + 1),
                                         MarshalIndent(a[x], prefix, level + 1)),
                                x < Len(a))])
        \o <<prefix \o Indent(level) \o <<"]">>>>
MarshalIndent(value, prefix, level) ==
    IF value.k = "map" /\ DOMAIN value.m # {}
    THEN marshalMembers(value.m, SortKeys(DOMAIN value.m), prefix, level)
    ELSE IF value.k = "map" THEN <<<<"{", "}">>>>
    ELSE IF value.k = "slice" /\ Len(value.a) > 0 THEN marshalItems(value.a, prefix, level)
    ELSE IF value.k = "slice" THEN <<<<"[", "]">>>>
    ELSE <<JSONScalar(value)>>

\* generate.go:506-538: one member of the object, its value a variable
\* reference when it is a scalar
memberWithVar(key, name, value, more) ==
    WithComma(Prefixed(<<" ", " ", "\"">> \o key \o <<"\"", ":", " ">>,
                       IF value.k = "string" THEN <<<<"\"">> \o VarRef(name) \o <<"\"">>>>
                       ELSE IF IsScalar(value) THEN <<VarRef(name)>>
                       ELSE MarshalIndent(value, <<" ", " ">>, 0)),
              more)
\* generate.go:495-543
membersWithVars(m, keys) ==
    <<<<"{">>>>
        \o Concat([x \in 1..Len(keys) |->
                      memberWithVar(KeyChars(keys[x]), ToUpper(KeyChars(keys[x])),
                                    m[keys[x]], x < Len(keys))])
        \o <<<<"}">>>>

\* generate.go:487-544, as lines
formatJSONWithVars(example) ==
    IF example.k = "map" THEN membersWithVars(example.m, SortKeys(DOMAIN example.m))
    ELSE IF example.k = "slice" THEN MarshalIndent(example, <<>>, 0)
    ELSE <<<<"{", "}">>>>

\* generate.go:476-484
indentString(lines, indent) ==
    [x \in 1..Len(lines) |-> IF lines[x] # <<>> THEN indent \o lines[x] ELSE lines[x]]

\* generate.go:447-473, as lines
formatExampleWithVars(example) ==
    IF example.k = "slice" /\ Len(example.a) > 0 /\ example.a[1].k = "map"
    THEN <<<<"[">>>> \o indentString(formatJSONWithVars(example.a[1]), <<" ", " ">>)
             \o <<<<"]">>>>
    ELSE IF example.k = "map" THEN formatJSONWithVars(example)
    ELSE MarshalIndent(example, <<>>, 0)

(***************************************************************************)
(* extractRequestBody (generate.go:198-248).  A request body is            *)
(* [present, value, content]; content maps a content type to               *)
(* [example, examples, schema].  Go ranges over the Content and Examples   *)
(* maps in an order of its choosing: ctOrder and exOrder are those orders. *)
(* Each loop yields [returned, example, contentType]: whether the function *)
(* returned from inside the loop, the example it had found (NoEntry for    *)
(* none) and bodyInfo.contentType.                                         *)
(***************************************************************************)
EmptyText == <<<<>>>>
NoBodyInfo ==
    [exampleBody |-> EmptyText, contentType |-> "", bodyVars |-> EmptyMap,
     crashed |-> FALSE]
Outcome(returned, example, contentType) ==
    [returned |-> returned, example |-> example, contentType |-> contentType]

\* generate.go:205-228, one content type: hits are the named examples that are
\* not nil, in the order ranged over
RECURSIVE scanContent(_, _, _, _)
scanMediaType(G, content, ctOrder, exOrder, ct, mediaType, hits, schemaExample) ==
    IF mediaType.example # NilV THEN Outcome(TRUE, mediaType.example, ct)
    ELSE IF DOMAIN mediaType.examples # {}
    THEN IF hits # <<>> THEN Outcome(TRUE, mediaType.examples[Head(hits)], ct)
         ELSE Outcome(TRUE, NoEntry, ct)
    ELSE IF mediaType.schema # NilRef /\ schemaExample # NilV
    THEN Outcome(TRUE, schemaExample, ct)
    ELSE IF Tail(ctOrder) = <<>> THEN Outcome(FALSE, NoEntry, ct)
    ELSE scanContent(G, content, Tail(ctOrder), exOrder)

\* generate.go:205-228, the loop over the content types ctOrder (not empty)
scanContent(G, content, ctOrder, exOrder) ==
    scanMediaType(G, content, ctOrder, exOrder, Head(ctOrder), content[Head(ctOrder)],
                  SelectSeq(exOrder[Head(ctOrder)],
                            LAMBDA n : content[Head(ctOrder)].examples[n] # NilV),
                  generateExampleFromSchema(G, content[Head(ctOrder)].schema, 0))

\* generate.go:232-245, the loop over the parameters
RECURSIVE scanBodyParameters(_, _, _)
scanBodyParameter(G, params, schemaExample) ==
    IF schemaExample # NilV THEN Outcome(TRUE, schemaExample, "application/json")
    ELSE scanBodyParameters(G, Tail(params), "application/json")
scanBodyParameters(G, params, contentType) ==
    IF params = <<>> THEN Outcome(FALSE, NoEntry, contentType)
    ELSE IF Head(params).value /\ Head(params).in = "body" /\ Head(params).schema # NilRef
    THEN scanBodyParameter(G, params, generateExampleFromSchema(G, Head(params).schema, 0))
    ELSE scanBodyParameters(G, Tail(params), contentType)

\* a variant of bodyInfoOf that renders an empty structure where no example
\* was found
bodyInfoEmptyStructure(outcome) ==
    IF outcome.example = StackOverflow
    THEN [NoBodyInfo EXCEPT !.contentType = outcome.contentType, !.crashed = TRUE]
    ELSE IF outcome.example = NoEntry
    THEN [NoBodyInfo EXCEPT !.contentType = outcome.contentType,
                            !.exampleBody = <<<<"{", "}">>>>]
    ELSE [exampleBody |-> formatExampleWithVars(outcome.example),
          contentType |-> outcome.contentType,
          bodyVars |-> extractBodyVariablesFromAny(outcome.example),
          crashed |-> FALSE]

\* the bodyInfo of an outcome
bodyInfoOf(outcome) ==
    IF outcome.example = StackOverflow
    THEN [NoBodyInfo EXCEPT !.contentType = outcome.contentType, !.crashed = TRUE]
    ELSE IF outcome.example = NoEntry
    THEN [NoBodyInfo EXCEPT !.contentType = outcome.contentType]
    ELSE [exampleBody |-> formatExampleWithVars(outcome.example),
          contentType |-> outcome.contentType,
          bodyVars |-> extractBodyVariablesFromAny(outcome.example),
          crashed |-> FALSE]

\* generate.go:198-248
contentOutcome(G, op, ctOrder, exOrder) ==
    IF op.requestBody.present /\ op.requestBody.value /\ ctOrder # <<>>
    THEN scanContent(G, op.requestBody.content, ctOrder, exOrder)
    ELSE Outcome(FALSE, NoEntry, "")
bodyOutcome(G, op, scanned) ==
    IF scanned.returned THEN scanned
    ELSE scanBodyParameters(G, op.parameters, scanned.contentType)
extractRequestBody(G, op, ctOrder, exOrder) ==
    bodyInfoOf(bodyOutcome(G, op, contentOutcome(G, op, ctOrder, exOrder)))

(***************************************************************************)
(* The renderer: writeVariableSections, buildCurlCommand, addFormDataFields*)
(* and the body of maybeMake (generate.go:96-117, 251-367).                *)
(***************************************************************************)
\* "\n# <title>\n" followed by one line per assignment
SectionText(title, assignments) == <<<<>>, <<"#", " ">> \o title>> \o assignments \o <<<<>>>>

\* a variant of writeSection that writes the heading of an empty section too
writeSectionAlways(buf, title, names) ==
    Fprintf(buf, SectionText(title, [x \in 1..Len(names) |-> ValueAssignment(names[x])]))

\* one section, written when it has names
writeSection(buf, title, names) ==
    IF Len(names) > 0
    THEN Fprintf(buf, SectionText(title, [x \in 1..Len(names) |-> ValueAssignment(names[x])]))
    ELSE buf
\* generate.go:271-286: the body section, keys as sort.Strings left them
writeBodySection(buf, bodyVars, keys) ==
    IF Len(keys) > 0
    THEN Fprintf(buf, SectionText(<<"Body">>,
                     [x \in 1..Len(keys) |->
                         ToUpper(KeyChars(keys[x])) \o <<"=">>
                             \o formatVariableValue(bodyVars[keys[x]])]))
    ELSE buf
\* generate.go:255 without the strings.ToUpper
namesAsExtracted(names) == names
upperAll(names) == [x \in 1..Len(names) |-> ToUpper(names[x])]

\* generate.go:251-287
writeVariableSections(buf, params, bodyInfo) ==
    writeBodySection(
        writeSection(
            writeSection(
                writeSection(
                    writeSection(buf, <<"Path", " ", "Parameters">>,
                                 upperAll(params.pathParams)),
                    <<"Query", " ", "Parameters">>, params.queryParams),
                <<"Headers">>, params.headerParams),
            <<"Form", " ", "Data">>, params.formDataParams),
        bodyInfo.bodyVars, SortKeys(DOMAIN bodyInfo.bodyVars))

ToLowerChar(c) ==
    IF c \in Range(Upper) THEN Lower[CHOOSE x \in 1..Len(Upper) : Upper[x] = c] ELSE c
\* strings.ToLower
ToLower(str) == [x \in 1..Len(str) |-> ToLowerChar(str[x])]
\* strings.Contains
Contains(str, sub) ==
    \E x \in 0..(Len(str) - Len(sub)) : SubSeq(str, x + 1, x + Len(sub)) = sub

FileWord == <<"f", "i", "l", "e">>
ImageWord == <<"i", "m", "a", "g", "e">>
AttachmentWord == <<"a", "t", "t", "a", "c", "h", "m", "e", "n", "t">>
\* " \\\n  " : the open line ends with a backslash, the next starts indented
Continuation(str) == <<<<" ", "\\">>, <<" ", " ">> \o str>>

\* generate.go:344-367
RECURSIVE addFormDataFields(_, _, _)
addFormDataFields(buf, op, formDataParams) ==
    IF formDataParams = <<>> THEN buf
    ELSE LET paramName == Head(formDataParams)
             matching == SelectSeq(op.parameters,
                             LAMBDA q : IsFormData(q) /\ ToUpper(q.name) = paramName)
             originalName == IF matching = <<>> THEN <<>> ELSE Head(matching).name
             lowerName == ToLower(originalName)
             upload == \/ Contains(lowerName, FileWord)
                       \/ Contains(lowerName, ImageWord)
                       \/ Contains(lowerName, AttachmentWord)
             flag == <<"-F", " ", "\"">> \o originalName \o <<"=">>
                         \o (IF upload THEN <<"@">> ELSE <<>>) \o VarRef(paramName) \o <<"\"">>
         IN addFormDataFields(
                IF originalName # <<>> THEN Fprintf(buf, Continuation(flag)) ELSE buf,
                op, Tail(formDataParams))

\* generate.go:292-341
buildCurlCommand(buf, method, pathTemplate, pathParameters, op, formDataParams, bodyInfo) ==
    LET urlPath0 == substitutePathParams(pathTemplate, pathParameters)
        b1 == Fprintf(buf, <<<<>>, <<"curl", " ", "-s", " ", "-X", " ">> \o ToUpper(<<method>>)
                                       \o <<" ", "\"">> \o VarRef(BASE_URL) \o urlPath0>>)
        queries == SelectSeq(op.parameters, IsQuery)
        queryStrs == [x \in 1..Len(queries) |->
                         queries[x].name \o <<"=">> \o VarRef(QueryName(queries[x]))]
        b2 == IF Len(queryStrs) > 0
              THEN Fprintf(b1, <<<<"?">> \o Join(queryStrs, <<"&">>)>>)
              ELSE b1
        b3 == Fprintf(b2, <<<<"\"">>>>)
        b4 == IF bodyInfo.contentType # ""
              THEN Fprintf(b3, Continuation(<<"-H", " ", "\"", "Content-Type:", " ",
                                              bodyInfo.contentType, "\"">>))
              ELSE b3
        b5 == Fprintf(b4, Continuation(<<"-H", " ", "\"", "Accept:", " ",
                                         "application/json", "\"">>))
        headers == SelectSeq(op.parameters, IsHeader)
        headerFlags == [x \in 1..Len(headers) |->
                           Continuation(<<"-H", " ", "\"">> \o headers[x].name \o <<":", " ">>
                                            \o VarRef(HeaderName(headers[x])) \o <<"\"">>)]
        RECURSIVE writeAll(_, _)
        writeAll(b, texts) ==
            IF texts = <<>> THEN b ELSE writeAll(Fprintf(b, Head(texts)), Tail(texts))
        b6 == writeAll(b5, headerFlags)
        b7 == IF Len(formDataParams) > 0 THEN addFormDataFields(b6, op, formDataParams)
              ELSE IF bodyInfo.exampleBody # EmptyText
              THEN Fprintf(b6, Continuation(<<"--data-binary", " ", "@-", " ", "<<", " ", "EOF">>)
                                   \o bodyInfo.exampleBody \o <<<<"EOF">>>>)
              ELSE IF op.requestBody.present
              THEN Fprintf(b6, Continuation(<<"-d", " ", "'{\"foo\": \"bar\"}'">>))
              ELSE b6
    IN Fprintf(b7, <<<<>>, <<>>>>)

\* generate.go:103-106
writeHeading(buf, method, pathTemplate, op) ==
    Fprintf(buf,
            IF op.summary # <<>>
            THEN <<<<"#", " ">> \o ToUpper(<<method>>) \o <<" ">> \o pathTemplate,
                   <<"#", " ">> \o op.summary, <<>>>>
            ELSE <<<<"#", " ">> \o ToUpper(<<method>>) \o <<" ">> \o pathTemplate, <<>>>>)
\* generate.go:108, 113
writeVariablesMarker(buf) == Fprintf(buf, <<<<>>, VariablesMarker, <<>>>>)
writeBaseURL(buf, baseURL) ==
    Fprintf(buf, <<<<>>, BASE_URL \o <<"=", "\"", baseURL, "\"">>, <<>>>>)
\* generate.go:102-114: the text of one operation's artifact, as the lines of
\* curl.String() split at its newlines
renderWith(baseURL, method, pathTemplate, op, params, bodyInfo) ==
    IF bodyInfo.crashed THEN <<StackOverflow>>
    ELSE buildCurlCommand(
             writeVariableSections(
                 writeBaseURL(writeVariablesMarker(
                                  writeHeading(EmptyBuffer, method, pathTemplate, op)),
                              baseURL),
                 params, bodyInfo),
             method, pathTemplate, params.pathParams, op, params.formDataParams, bodyInfo)
renderArtifact(G, baseURL, method, pathTemplate, op, ctOrder, exOrder) ==
    renderWith(baseURL, method, pathTemplate, op, extractRequestParameters(pathTemplate, op),
               extractRequestBody(G, op, ctOrder, exOrder))

(***************************************************************************)
(* applyEnvironmentVars (root.go:420-453).  content is the file as lines   *)
(* (strings.Split at "\n"), envVars maps a name to its value.              *)
(***************************************************************************)
IsSpace(c) == c \in {" ", "\t"}
\* strings.TrimSpace
RECURSIVE TrimSpace(_)
TrimSpace(str) ==
    IF str # <<>> /\ IsSpace(Head(str)) THEN TrimSpace(Tail(str))
    ELSE IF str # <<>> /\ IsSpace(str[Len(str)]) THEN TrimSpace(SubSeq(str, 1, Len(str) - 1))
    ELSE str

\* strings.HasPrefix(str, "curl")
HasPrefixCurl(str) ==
    \/ str # <<>> /\ Head(str) = "curl"
    \/ Len(str) >= 4 /\ SubSeq(str, 1, 4) = <<"c", "u", "r", "l">>

\* strings.SplitN(line, "=", 2)[0] of a line that holds a "="
BeforeEquals(line) ==
    SubSeq(line, 1, (CHOOSE x \in 1..Len(line) :
                        line[x] = "=" /\ \A y \in 1..(x - 1) : line[y] # "=") - 1)

\* root.go:425-450, the loop over the lines
RECURSIVE applyToLines(_, _, _)
applyToLines(lines, environment, inVarSection) ==
    IF lines = <<>> THEN <<>>
    ELSE LET line == Head(lines)
             trimmed == TrimSpace(line)
             stillIn == inVarSection /\ ~(trimmed = <<>> \/ HasPrefixCurl(trimmed))
             varName == TrimSpace(BeforeEquals(line))
         IN IF trimmed = VariablesMarker
            THEN <<line>> \o applyToLines(Tail(lines), environment, TRUE)
            ELSE IF stillIn /\ "=" \in Range(line) /\ varName \in DOMAIN environment
            THEN <<varName \o <<"=", "\"", environment[varName], "\"">>>>
                     \o applyToLines(Tail(lines), environment, stillIn)
            ELSE <<line>> \o applyToLines(Tail(lines), environment, stillIn)

\* root.go:424 with inVarSection := true
applyInEverySection(content, environment) == applyToLines(content, environment, TRUE)
applyEnvironmentVars(content, environment) == applyToLines(content, environment, FALSE)

(***************************************************************************)
(* The descriptions generateCollection is run on.                          *)
(***************************************************************************)
Verbs == <<"GET", "POST", "PUT", "PATCH", "DELETE", "OPTIONS", "HEAD">>
NilOp == [nil |-> TRUE]
NilItem == [nil |-> TRUE]
NoRequestBody == [present |-> FALSE, value |-> FALSE, content |-> EmptyMap]
RequestBody(content) == [present |-> TRUE, value |-> TRUE, content |-> content]
MediaType(example, examples, schema) ==
    [example |-> example, examples |-> examples, schema |-> schema]
Param(name, in, schema) == [value |-> TRUE, name |-> name, in |-> in, schema |-> schema]
NilParam == [value |-> FALSE, name |-> <<>>, in |-> "", schema |-> NilRef]
Operation(summary, parameters, requestBody) ==
    [summary |-> summary, parameters |-> parameters, requestBody |-> requestBody]
PathItem(get, post, delete) ==
    [v \in Range(Verbs) |->
        CASE v = "GET" -> get [] v = "POST" -> post [] v = "DELETE" -> delete [] OTHER -> NilOp]

\* schema 1: an object with an integer "id" and a "tag" without properties;
\* schema 3 alone is an object without shape
DocSchemas ==
    <<MkSchema("object", NoHints, [id |-> 2, tag |-> 3], NilRef),
      MkSchema("integer", NoHints, EmptyMap, NilRef),
      MkSchema("object", NoHints, EmptyMap, NilRef)>>

OpListUsers ==
    Operation(<<"Get", " ", "users">>,
              <<Param(<<"l", "i", "m", "i", "t">>, "query", 2)>>, NoRequestBody)
OpGetUser ==
    Operation(<<>>,
              <<Param(<<"i", "d">>, "path", 2), NilParam,
                Param(<<"X", "-", "I", "d">>, "header", NilRef)>>, NoRequestBody)
OpCreateUser ==
    Operation(Tail(Tail(VariablesMarker)), <<>>,
              RequestBody(("application/json" :> MediaType(NilV, EmptyMap, 1))))
OpShapeless == Operation(<<>>, <<>>, RequestBody(("application/json" :> MediaType(NilV, EmptyMap, 3))))
OpTwoTypes ==
    Operation(<<>>, <<>>,
              RequestBody(
                  ("application/json" :> MediaType(ObjV([id |-> FloatV(70)]), EmptyMap, NilRef))
                  @@ ("application/xml" :>
                          MediaType(NilV, [a |-> StrV("x"), B |-> NilV], NilRef))))
OpUpload ==
    Operation(<<>>,
              <<Param(<<"f", "i", "l", "e">>, "formData", NilRef),
                Param(<<"i", "d">>, "body", 1)>>, NoRequestBody)

ItemMenu ==
    {NilItem,
     PathItem(OpListUsers, NilOp, NilOp),
     PathItem(OpGetUser, OpCreateUser, NilOp),
     PathItem(NilOp, OpShapeless, OpGetUser),
     PathItem(NilOp, OpTwoTypes, NilOp),
     PathItem(OpListUsers, OpUpload, NilOp)}

PathMenu ==
    {<<"/">>,
     <<"/", "u", "s", "e", "r", "s">>,
     <<"/", "u", "s", "e", "r", "s", "/", "{", "i", "d", "}">>,
     <<"/", "u", "s", "e", "r", "s", "/", "_", "i", "d">>,
     <<"/", "{", "i", "d", "}", "/", "{", "I", "D", "}">>}

\* a description declares one or two of the paths
Descriptions ==
    UNION {[ps -> ItemMenu] : ps \in {q \in SUBSET PathMenu : Cardinality(q) \in {1, 2}}}

Faults ==
    {[load |-> FALSE, mkdir |-> FALSE, unwritable |-> {}],
     [load |-> TRUE, mkdir |-> FALSE, unwritable |-> {}],
     [load |-> FALSE, mkdir |-> TRUE, unwritable |-> {}],
     [load |-> FALSE, mkdir |-> FALSE, unwritable |-> {<<"envs.yml">>}],
     [load |-> FALSE, mkdir |-> FALSE,
      unwritable |-> {fileNameOf("GET", <<"/", "u", "s", "e", "r", "s">>)}]}

\* the environments of the generated envs.yml, with the names of the variables
\* the artifacts assign
Environments ==
    {(BASE_URL :> "http://localhost:8081"),
     (BASE_URL :> "http://localhost:8081") @@ (<<"I", "D">> :> "dev-id")
         @@ (<<"L", "I", "M", "I", "T">> :> "dev-value")}

(***************************************************************************)
(* Spec: generateCollection (generate.go:46-160) runs on a description,    *)
(* then either runs again on the same description and output directory, or *)
(* the executor applies an environment to one of the artifacts.            *)
(***************************************************************************)
EnvsFile == <<"envs.yml">>
\* the orders in which Go may range over a map with the keys S
Orders(S) == {f \in [1..Cardinality(S) -> S] : Range(f) = S}

Init ==
    /\ schemas = DocSchemas
    /\ SchemaIdle
    /\ PathIdle
    /\ UnitIdle
    /\ doc \in {[servers |-> sv, paths |-> ps] :
                   sv \in {<<>>, <<"http://localhost:8080">>}, ps \in Descriptions}
    /\ faults \in Faults
    /\ gpc = "start"
    /\ pending = {}
    /\ curPath = <<>>
    /\ curVerb = 0
    /\ outDir = [exists |-> FALSE, files |-> NoFiles]
    /\ written = <<>>
    /\ warnings = 0
    /\ run = 1
    /\ firstRun = NoFiles
    /\ retval = "none"
    /\ envContent = <<>>
    /\ envVarsIn = NoFiles
    /\ envResult = NotApplied

\* generate.go:65-68
baseURLOf(d) ==
    IF Len(d.servers) > 0 /\ d.servers[1] # "" THEN d.servers[1] ELSE "http://localhost"

\* generate.go:74-77: os.WriteFile creates or replaces the file
writeFile(dir, name, contents) ==
    [dir EXCEPT !.files = [n \in DOMAIN dir.files \cup {name} |->
                              IF n = name THEN contents ELSE dir.files[n]]]

\* generate.go:47-63 without the return of line 62
LoadDescriptionIgnoringError ==
    /\ gpc = "start"
    /\ gpc' = "loaded"
    /\ UNCHANGED <<unitVars, schemas, schemaVars, pathVars, envVars, doc, faults, pending, curPath,
                   curVerb, outDir, written, warnings, run, firstRun, retval>>
\* generate.go:47-63
LoadDescription ==
    /\ gpc = "start"
    /\ IF faults.load
       THEN gpc' = "failed" /\ retval' = "failed to load OpenAPI file"
       ELSE gpc' = "loaded" /\ UNCHANGED retval
    /\ UNCHANGED <<unitVars, schemas, schemaVars, pathVars, envVars, doc, faults, pending, curPath,
                   curVerb, outDir, written, warnings, run, firstRun>>

\* generate.go:70-72
MakeOutDir ==
    /\ gpc = "loaded"
    /\ IF faults.mkdir
       THEN gpc' = "failed" /\ retval' = "failed to create output dir"
                /\ UNCHANGED <<outDir, pending>>
       ELSE gpc' = "ranging" /\ outDir' = [outDir EXCEPT !.exists = TRUE]
                /\ pending' = DOMAIN doc.paths /\ UNCHANGED retval
    /\ UNCHANGED <<unitVars, schemas, schemaVars, pathVars, envVars, doc, faults, curPath, curVerb,
                   written, warnings, run, firstRun>>

\* generate.go:92-95: the range over doc.Paths.Map() takes the paths in any order
RangePaths ==
    /\ gpc = "ranging"
    /\ \E p \in pending :
          /\ pending' = pending \ {p}
          /\ IF doc.paths[p] = NilItem
             THEN UNCHANGED <<gpc, curPath, curVerb>>
             ELSE gpc' = "making" /\ curPath' = p /\ curVerb' = 1
    /\ UNCHANGED <<unitVars, schemas, schemaVars, pathVars, envVars, doc, faults, outDir, written,
                   warnings, run, firstRun, retval>>

\* generate.go:96-139: one call of maybeMake, for the verb Verbs[curVerb]
MaybeMake ==
    /\ gpc = "making"
    /\ LET method == Verbs[curVerb]
           op == doc.paths[curPath][method]
           fileName == fileNameOf(method, curPath)
           next == IF curVerb = Len(Verbs) THEN "ranging" ELSE "making"
       IN IF op = NilOp
          THEN gpc' = next /\ UNCHANGED <<outDir, written, warnings>>
          ELSE \E ctOrder \in Orders(DOMAIN op.requestBody.content) :
               \E exOrder \in [DOMAIN op.requestBody.content ->
                                  UNION {Orders(DOMAIN op.requestBody.content[c].examples) :
                                            c \in DOMAIN op.requestBody.content}] :
                  /\ \A c \in DOMAIN exOrder :
                        exOrder[c] \in Orders(DOMAIN op.requestBody.content[c].examples)
                  /\ LET contents == renderArtifact(schemas, baseURLOf(doc), method,
                                                    curPath, op, ctOrder, exOrder)
                     IN IF contents = <<StackOverflow>>
                        THEN gpc' = "crashed" /\ UNCHANGED <<outDir, written, warnings>>
                        ELSE IF fileName \in faults.unwritable
                        THEN gpc' = next /\ warnings' = warnings + 1
                                 /\ UNCHANGED <<outDir, written>>
                        ELSE /\ gpc' = next
                             /\ outDir' = writeFile(outDir, fileName, contents)
                             /\ written' = Append(written, [name |-> fileName,
                                                            template |-> curPath,
                                                            method |-> method])
                             /\ UNCHANGED warnings
    /\ curVerb' = IF curVerb = Len(Verbs) THEN 0 ELSE curVerb + 1
    /\ UNCHANGED <<unitVars, schemas, schemaVars, pathVars, envVars, doc, faults, pending, curPath,
                   run, firstRun, retval>>

\* generate.go:142-159 with the error of write("envs.yml", ...) returned
WriteEnvsAndReturnFatal ==
    /\ gpc = "ranging"
    /\ pending = {}
    /\ IF EnvsFile \in faults.unwritable
       THEN gpc' = "failed" /\ retval' = "failed to create envs.yml"
                /\ UNCHANGED <<outDir, warnings, firstRun>>
       ELSE /\ outDir' = writeFile(outDir, EnvsFile, <<<<"environments:">>>>)
            /\ firstRun' = IF run = 1 THEN outDir'.files ELSE firstRun
            /\ gpc' = "done" /\ retval' = "nil" /\ UNCHANGED warnings
    /\ UNCHANGED <<unitVars, schemas, schemaVars, pathVars, envVars, doc, faults, pending, curPath,
                   curVerb, written, run>>
\* generate.go:142-159: envs.yml, and the return
WriteEnvsAndReturn ==
    /\ gpc = "ranging"
    /\ pending = {}
    /\ LET after == IF EnvsFile \in faults.unwritable THEN outDir
                    ELSE writeFile(outDir, EnvsFile, <<<<"environments:">>>>)
       IN /\ outDir' = after
          /\ warnings' = IF EnvsFile \in faults.unwritable THEN warnings + 1 ELSE warnings
          /\ firstRun' = IF run = 1 THEN after.files ELSE firstRun
    /\ gpc' = "done"
    /\ retval' = "nil"
    /\ UNCHANGED <<unitVars, schemas, schemaVars, pathVars, envVars, doc, faults, pending, curPath,
                   curVerb, written, run>>

\* generateCollection is run again on the same description and directory
RunAgain ==
    /\ gpc = "done"
    /\ run = 1
    /\ envResult = NotApplied
    /\ run' = 2
    /\ gpc' = "start"
    /\ written' = <<>>
    /\ warnings' = 0
    /\ retval' = "none"
    /\ UNCHANGED <<unitVars, schemas, schemaVars, pathVars, envVars, doc, faults, pending, curPath,
                   curVerb, outDir, firstRun>>

\* root.go:384-392: the executor reads an artifact and applies an environment
ApplyEnvironmentVars ==
    /\ gpc = "done"
    /\ envResult = NotApplied
    /\ \E name \in DOMAIN outDir.files \ {EnvsFile} :
       \E environment \in Environments :
          /\ envContent' = outDir.files[name]
          /\ envVarsIn' = environment
          /\ envResult' = applyEnvironmentVars(outDir.files[name], environment)
    /\ UNCHANGED <<unitVars, schemas, schemaVars, pathVars, genVars>>

Next ==
    \/ LoadDescription
    \/ MakeOutDir
    \/ RangePaths
    \/ MaybeMake
    \/ WriteEnvsAndReturn
    \/ RunAgain
    \/ ApplyEnvironmentVars

Spec == Init /\ [][Next]_vars

(***************************************************************************)
(* SpecOperation: extractRequestBody (generate.go:198-248) is called on    *)
(* one operation, then the body of maybeMake (generate.go:100-114) builds  *)
(* the operation's artifact.  The schemas are DocSchemas.                  *)
(***************************************************************************)
\* an example with a nested object, one whose keys differ in case, and one
\* whose keys differ only in case
NestedObject == ObjV([id |-> FloatV(70), tag |-> ObjV([id |-> IntV(1)])])
MixedCaseObject == ObjV([a |-> StrV("x"), B |-> BoolV(TRUE)])
TwinObject == ObjV([id |-> IntV(1), Id |-> IntV(2)])

MediaMenu ==
    {MediaType(NilV, EmptyMap, NilRef),
     MediaType(NestedObject, EmptyMap, 1),
     MediaType(MixedCaseObject, [a |-> StrV("y")], NilRef),
     MediaType(NilV, [a |-> NilV], 1),
     MediaType(NilV, [a |-> NilV], NilRef),
     MediaType(NilV, [a |-> ArrV(<<TwinObject>>), B |-> StrV("x")], NilRef),
     MediaType(NilV, EmptyMap, 1),
     MediaType(NilV, EmptyMap, 3)}

ContentTypes == {"application/json", "application/xml"}
RequestBodies ==
    {NoRequestBody, [present |-> TRUE, value |-> FALSE, content |-> EmptyMap],
     RequestBody(EmptyMap)}
    \cup UNION {{RequestBody(c) : c \in [cts -> MediaMenu]} :
                    cts \in SUBSET ContentTypes \ {{}}}

ParamLists ==
    {<<>>,
     <<Param(<<"i", "d">>, "body", 1)>>,
     <<Param(<<"i", "d">>, "body", 3), Param(<<"t", "a", "g">>, "body", 2)>>,
     <<Param(<<"i", "d">>, "body", NilRef)>>,
     <<Param(<<"l", "i", "m", "i", "t">>, "query", 2),
       Param(<<"X", "-", "I", "d">>, "header", NilRef)>>,
     <<Param(<<"i", "d">>, "query", 2), NilParam>>,
     <<Param(<<"f", "i", "l", "e">>, "formData", NilRef)>>,
     <<Param(<<"f", "i", "l", "e">>, "formData", NilRef), Param(<<"i", "d">>, "body", 1)>>}

Summaries == {<<>>, <<"B", "o", "d", "y">>}
OperationPaths ==
    {<<"/">>,
     <<"/", "u", "s", "e", "r", "s", "/", "{", "i", "d", "}">>,
     <<"/", "{", "i", "d", "}", "/", "{", "i", "d", "}">>}

\* the orders Go may range over the named examples of each content type in
ExampleOrders(content) ==
    {f \in [DOMAIN content -> UNION {Orders(DOMAIN content[c].examples) : c \in DOMAIN content}] :
        \A c \in DOMAIN content : f[c] \in Orders(DOMAIN content[c].examples)}

CallsWith(requestBody) ==
    {[op |-> Operation(x[1], x[2], requestBody), path |-> x[3], method |-> "POST",
      ctOrder |-> x[4], exOrder |-> x[5]] :
        x \in Summaries \X ParamLists \X OperationPaths
                  \X Orders(DOMAIN requestBody.content) \X ExampleOrders(requestBody.content)}
Calls == UNION {CallsWith(requestBody) : requestBody \in RequestBodies}

InitOperation ==
    /\ schemas = DocSchemas
    /\ SchemaIdle
    /\ PathIdle
    /\ GenIdle
    /\ BodyVarsIdle
    /\ SanitizeIdle
    /\ LaterIdle
    /\ call \in Calls
    /\ bodyResult = NotCalled
    /\ artifact = <<>>
    /\ opc = "ready"

\* generate.go:198-248
ExtractRequestBody ==
    /\ opc = "ready"
    /\ bodyResult' = extractRequestBody(schemas, call.op, call.ctOrder, call.exOrder)
    /\ opc' = "extracted"
    /\ UNCHANGED <<schemas, schemaVars, pathVars, genVars, envVars, call, artifact,
                   exampleIn, bodyVarsOut, rawPath, sanitized, laterVars>>

\* generate.go:102-114, with the default base URL of generate.go:65
MakeArtifact ==
    /\ opc = "extracted"
    /\ artifact' = renderArtifact(schemas, "http://localhost", call.method, call.path,
                                  call.op, call.ctOrder, call.exOrder)
    /\ opc' = "rendered"
    /\ UNCHANGED <<schemas, schemaVars, pathVars, genVars, envVars, call, bodyResult,
                   exampleIn, bodyVarsOut, rawPath, sanitized, laterVars>>

NextOperation == ExtractRequestBody \/ MakeArtifact

SpecOperation == InitOperation /\ [][NextOperation]_vars

(***************************************************************************)
(* SpecBodyVars: extractBodyVariablesFromAny (generate.go:410-424) is      *)
(* called on one value.                                                    *)
(***************************************************************************)
Scalars == {StrV("x"), IntV(1), FloatV(15), BoolV(TRUE), NilV}
FieldNames == {"id", "tag", "a"}
FieldValues ==
    Scalars \cup {ObjV([id |-> IntV(1)]), ObjV(EmptyMap), ArrV(<<IntV(1)>>), ArrV(<<>>)}
Objects == {ObjV(m) : m \in UNION {[D -> FieldValues] : D \in SUBSET FieldNames}}
AnyValues ==
    Scalars \cup Objects \cup {ArrV(<<>>)}
    \cup {ArrV(<<v>>) : v \in Scalars \cup Objects}
    \cup {ArrV(<<x[1], x[2]>>) :
            x \in (Scalars \cup Objects) \X {IntV(2), ObjV([tag |-> StrV("y")])}}

InitBodyVars ==
    /\ schemas = <<>>
    /\ SchemaIdle
    /\ PathIdle
    /\ GenIdle
    /\ OpIdle
    /\ SanitizeIdle
    /\ LaterIdle
    /\ exampleIn \in AnyValues
    /\ bodyVarsOut = NotCalled

\* generate.go:410-424
CallExtractBodyVariables ==
    /\ bodyVarsOut = NotCalled
    /\ bodyVarsOut' = extractBodyVariablesFromAny(exampleIn)
    /\ UNCHANGED <<schemas, schemaVars, pathVars, genVars, envVars, opVars, exampleIn,
                   rawPath, sanitized, laterVars>>

NextBodyVars == CallExtractBodyVariables

SpecBodyVars == InitBodyVars /\ [][NextBodyVars]_vars

(***************************************************************************)
(* SpecSanitize: sanitize (generate.go:79-90) is called on one path.       *)
(***************************************************************************)
MaxRawLen == 5
SanitizeChars == {"/", "{", "}", "a", ".", "@"}
RawPaths ==
    UNION {[1..n -> SanitizeChars] : n \in 0..MaxRawLen}
    \cup {<<"/", "u", "s", "e", "r", "s", "/", "{", "i", "d", "}">>,
          <<"/", "a", "p", "i", "/", "v", "1", "/", "u", "s", "e", "r", "s">>,
          <<"/", "u", "s", "e", "r", "-", "n", "a", "m", "e", "s", "/">>,
          <<"/", "a", " ", "b", ":", "c", "?", "/", "{", "I", "d", "}", "{", "x", "}">>}

InitSanitize ==
    /\ schemas = <<>>
    /\ SchemaIdle
    /\ PathIdle
    /\ GenIdle
    /\ OpIdle
    /\ BodyVarsIdle
    /\ LaterIdle
    /\ rawPath \in RawPaths
    /\ sanitized = NotSanitized

\* generate.go:100, the call sanitize(path)
CallSanitize ==
    /\ sanitized = NotSanitized
    /\ sanitized' = sanitize(rawPath)
    /\ UNCHANGED <<schemas, schemaVars, pathVars, genVars, envVars, opVars, exampleIn,
                   bodyVarsOut, rawPath, laterVars>>

NextSanitize == CallSanitize

SpecSanitize == InitSanitize /\ [][NextSanitize]_vars

(***************************************************************************)
(* Claims about generateExampleFromSchema, checked under SpecSchema.       *)
(***************************************************************************)
rootSchema == schemas[root]
\* the declared properties of the root schema whose reference is not nil
rootProps == {n \in DOMAIN rootSchema.properties : rootSchema.properties[n] # NilRef}
propSchemaOf(n) == schemas[rootSchema.properties[n]]
\* the root is an object without example and the call returned a map
RootObjectReturned ==
    /\ spc = "returned"
    /\ rootSchema.type = "object"
    /\ rootSchema.example = NilV

\* C5: generateExampleFromSchema terminates with a result on every schema
\* graph, also when a property or the items of a schema refer back to an
\* enclosing schema: the call never ends in a stack overflow.
C5_TerminatesOnEveryGraph == spc # "crashed"

\* C6: a schema whose example is set yields that example unchanged, whatever
\* its kind, as the root schema and as an object property.
C6_ExampleVerbatim ==
    spc = "returned" =>
        /\ rootSchema.example # NilV => genResult = rootSchema.example
        /\ RootObjectReturned =>
              \A n \in rootProps :
                  propSchemaOf(n).example # NilV =>
                      /\ genResult.k = "map"
                      /\ n \in DOMAIN genResult.m
                      /\ genResult.m[n] = propSchemaOf(n).example

\* C7: on an object schema with zero declared properties the call returns nil,
\* whatever the schema's example, default and enum are.
C7_EmptyObjectIsNil ==
    (spc # "ready" /\ rootSchema.type = "object" /\ DOMAIN rootSchema.properties = {})
        => (spc = "returned" /\ genResult = NilV)

\* C7 witness: the call returned for an object schema without properties that
\* carries an example, a default and an enum.
C7_Witness ==
    /\ spc = "returned"
    /\ rootSchema.type = "object"
    /\ DOMAIN rootSchema.properties = {}
    /\ rootSchema.example # NilV
    /\ rootSchema.default # NilV
    /\ Len(rootSchema.enum) > 0

\* C8: for an object schema with at least one primitive-typed property and no
\* example the call returns a non-nil object whose keys are exactly the
\* declared properties whose own synthesis is non-null.
C8_ExactlyNonNullProperties ==
    (RootObjectReturned /\ \E n \in rootProps : propSchemaOf(n).type \in Primitives)
        => /\ genResult.k = "map"
           /\ DOMAIN genResult.m =
                 {n \in DOMAIN rootSchema.properties :
                     generateExampleFromSchema(schemas, rootSchema.properties[n], 1) # NilV}

\* the value the specification gives a string schema without example:
\* first enum value, else default, else "string"
stringFallback(schema) ==
    IF Len(schema.enum) > 0 THEN schema.enum[1]
    ELSE IF schema.default # NilV THEN schema.default
    ELSE StrV("string")

\* C9: a string schema without example yields its first enum value, else its
\* default, else "string", as the root schema and as an object property.
C9_StringFallback ==
    spc = "returned" =>
        /\ (rootSchema.type = "string" /\ rootSchema.example = NilV)
              => genResult = stringFallback(rootSchema)
        /\ RootObjectReturned =>
              \A n \in rootProps :
                  (propSchemaOf(n).type = "string" /\ propSchemaOf(n).example = NilV)
                      => /\ genResult.k = "map"
                         /\ n \in DOMAIN genResult.m
                         /\ genResult.m[n] = stringFallback(propSchemaOf(n))

\* the value the specification gives an integer, number or boolean schema
\* without example: its default, else 0, 0.0 or true
scalarFallback(schema) ==
    IF schema.default # NilV THEN schema.default
    ELSE IF schema.type = "integer" THEN IntV(0)
    ELSE IF schema.type = "number" THEN FloatV(0)
    ELSE BoolV(TRUE)

\* C10: an integer, number or boolean schema without example yields its
\* default when one is set, else 0, 0.0 or true, as the root schema and as an
\* object property.
C10_ScalarFallback ==
    spc = "returned" =>
        /\ (rootSchema.type \in {"integer", "number", "boolean"} /\ rootSchema.example = NilV)
              => genResult = scalarFallback(rootSchema)
        /\ RootObjectReturned =>
              \A n \in rootProps :
                  (/\ propSchemaOf(n).type \in {"integer", "number", "boolean"}
                   /\ propSchemaOf(n).example = NilV)
                      => /\ genResult.k = "map"
                         /\ n \in DOMAIN genResult.m
                         /\ genResult.m[n] = scalarFallback(propSchemaOf(n))

\* what the array branch is to return for the synthesis result of the items
ArrayAround(item) == IF item # NilV THEN ArrV(<<item>>) ELSE ArrV(<<>>)
\* the synthesis result of the items schema of the root, nil without items
rootItemExample ==
    IF rootSchema.items = NilRef THEN NilV
    ELSE generateExampleFromSchema(schemas, rootSchema.items, 1)

\* C11: for a schema of kind array the call returns an array of exactly one
\* element, the synthesis result of the items schema, when that result is
\* not nil, and the empty array (never nil) when the item synthesizes to nil
\* or there is no items schema.
C11_ArrayOfOneItem ==
    (spc = "returned" /\ rootSchema.type = "array") => genResult = ArrayAround(rootItemExample)

\* C11 witness: the call returned a one-element array for an array of objects.
C11_Witness ==
    /\ spc = "returned"
    /\ rootSchema.type = "array"
    /\ rootSchema.items # NilRef
    /\ schemas[rootSchema.items].type = "object"
    /\ genResult.k = "slice"
    /\ Len(genResult.a) = 1
    /\ genResult.a[1].k = "map"

\* the call returned the empty array because the items synthesize to nil
C11_EmptyForNilItem ==
    /\ spc = "returned"
    /\ rootSchema.type = "array"
    /\ rootSchema.items # NilRef
    /\ genResult = ArrV(<<>>)

(***************************************************************************)
(* Claims about path templates, checked under SpecPath.                    *)
(***************************************************************************)
\* [a, b] spans a token of str: "{", at least one character, "}", and no "}"
\* between the braces
IsToken(str, a, b) ==
    /\ 1 <= a /\ a + 2 <= b /\ b <= Len(str)
    /\ str[a] = "{" /\ str[b] = "}"
    /\ \A j \in (a + 1)..(b - 1) : str[j] # "}"

\* the tokens of str from left to right: the spans that are tokens, do not
\* overlap, and leave no token start outside every span
TokenSpans(str) ==
    LET starts == {a \in 1..Len(str) : \E b \in 1..Len(str) : IsToken(str, a, b)}
        close(a) == CHOOSE b \in 1..Len(str) : IsToken(str, a, b)
        chosen == {a \in starts : \A e \in starts : e < a => close(e) < a}
        RECURSIVE Ordered(_)
        Ordered(S) ==
            IF S = {} THEN <<>>
            ELSE LET a == CHOOSE x \in S : \A y \in S : x <= y
                 IN <<[from |-> a, to |-> close(a)]>> \o Ordered(S \ {a})
    IN Ordered(chosen)

\* str with each token {name} replaced by ${NAME}, everything else kept
RECURSIVE TokensSubstituted(_, _, _)
TokensSubstituted(str, spans, x) ==
    IF spans = <<>> THEN SubSeq(str, x, Len(str))
    ELSE SubSeq(str, x, Head(spans).from - 1)
             \o <<"$", "{">>
             \o ToUpper(SubSeq(str, Head(spans).from + 1, Head(spans).to - 1))
             \o <<"}">>
             \o TokensSubstituted(str, Tail(spans), Head(spans).to + 1)

\* C2: extractPathParams returns the {name} tokens of the template in
\* left-to-right order, and the URL of buildCurlCommand has each token replaced
\* by ${NAME}, NAME the uppercased name, with no {...} token left unsubstituted
\* (every token of the URL is the {NAME} of a ${NAME}).
C2_PathTokensSubstituted ==
    /\ ppc \in {"extracted", "built"} =>
          pathParams = [x \in 1..Len(TokenSpans(path)) |->
                           SubSeq(path, TokenSpans(path)[x].from + 1,
                                  TokenSpans(path)[x].to - 1)]
    /\ ppc = "built" =>
          /\ urlPath = TokensSubstituted(path, TokenSpans(path), 1)
          /\ \A x \in 1..Len(TokenSpans(urlPath)) :
                /\ TokenSpans(urlPath)[x].from > 1
                /\ urlPath[TokenSpans(urlPath)[x].from - 1] = "$"

(***************************************************************************)
(* Claims about generateCollection and the executor, checked under Spec.   *)
(***************************************************************************)
\* the line the invocation starts on
CurlLine(content) ==
    CHOOSE x \in 1..Len(content) :
        HasPrefixCurl(content[x]) /\ \A y \in 1..(x - 1) : ~HasPrefixCurl(content[y])
\* line x of an artifact is one of its generated assignments
IsAssignment(content, x) ==
    /\ x < CurlLine(content)
    /\ "=" \in Range(content[x])
    /\ Head(content[x]) # "#"
\* NAME="value"
EnvAssignment(name, environment) == name \o <<"=", "\"", environment[name], "\"">>

\* C1: for every artifact generateCollection produces, applyEnvironmentVars
\* with an environment that defines a name assigned in the artifact replaces
\* the value of that assignment with the environment's value.
C1_EnvironmentRoundTrip ==
    envResult # NotApplied =>
        \A x \in 1..Len(envContent) :
            (IsAssignment(envContent, x) /\ BeforeEquals(envContent[x]) \in DOMAIN envVarsIn)
                => envResult[x] = EnvAssignment(BeforeEquals(envContent[x]), envVarsIn)

\* C3: a second run of generateCollection on the same description and output
\* directory leaves the same files with the same contents as the first run,
\* whatever order the maps are ranged over.
C3_Deterministic == (run = 2 /\ gpc = "done") => outDir.files = firstRun

\* the (path, verb) pairs of a description that declare a handler
DeclaredOperations(d) ==
    {pv \in (DOMAIN d.paths) \X Range(Verbs) :
        d.paths[pv[1]] # NilItem /\ d.paths[pv[1]][pv[2]] # NilOp}
CurlFiles(dir) == DOMAIN dir.files \ {EnvsFile}

\* C4: within one run no two (path, verb) pairs are written to the same file
\* name, and after a run without write failures there are as many .curl
\* files as declared operations.
C4_OneFilePerOperation ==
    /\ \A x, y \in 1..Len(written) : x # y => written[x].name # written[y].name
    /\ (gpc = "done" /\ warnings = 0) =>
           Cardinality(CurlFiles(outDir)) = Cardinality(DeclaredOperations(doc))

(***************************************************************************)
(* Claims about extractRequestBody and the text of one artifact, checked   *)
(* under SpecOperation.                                                    *)
(***************************************************************************)
hasRequestBody == call.op.requestBody.present /\ call.op.requestBody.value
\* the named examples of a media type that are not nil, in the order ranged over
namedValues(mediaType, order) ==
    SelectSeq([x \in 1..Len(order) |-> mediaType.examples[order[x]]], LAMBDA v : v # NilV)
\* the value a content type yields: its example, else its first named example
\* that is not nil, else the value synthesized from its schema; nil for none
mediaValue(mediaType, order) ==
    IF mediaType.example # NilV THEN mediaType.example
    ELSE IF namedValues(mediaType, order) # <<>> THEN Head(namedValues(mediaType, order))
    ELSE generateExampleFromSchema(schemas, mediaType.schema, 0)
\* the value of the x-th content type ranged over
contentValue(x) ==
    mediaValue(call.op.requestBody.content[call.ctOrder[x]], call.exOrder[call.ctOrder[x]])
\* the content types, by position in the range, that yield a value
yielding == {x \in 1..Len(call.ctOrder) : hasRequestBody /\ contentValue(x) # NilV}
firstYielding == CHOOSE x \in yielding : \A y \in yielding : x <= y
\* the bodyInfo that carries a value and its content type
InfoOf(value, contentType) ==
    [exampleBody |-> formatExampleWithVars(value), contentType |-> contentType,
     bodyVars |-> extractBodyVariablesFromAny(value), crashed |-> FALSE]

\* C12: extractRequestBody passes over every content type that yields no
\* value (also one whose named examples are all nil) and returns the value of
\* the first content type that yields one, by the precedence example, first
\* named example that is not nil, schema, together with that content type.
C12_FirstContentTypeWithValue ==
    (opc # "ready" /\ yielding # {}) =>
        bodyResult = InfoOf(contentValue(firstYielding), call.ctOrder[firstYielding])

\* the values synthesized from the parameters with in=body that carry a
\* schema, in the order declared, without the nil ones
bodyParamValues ==
    SelectSeq([x \in 1..Len(call.op.parameters) |->
                  IF call.op.parameters[x].value /\ call.op.parameters[x].in = "body"
                  THEN generateExampleFromSchema(schemas, call.op.parameters[x].schema, 0)
                  ELSE NilV],
              LAMBDA v : v # NilV)

\* C13: whenever the request body yields no value (it is absent, or no
\* content type produced one), extractRequestBody returns the value
\* synthesized from a parameter with in=body that carries a schema, with
\* content type application/json.
C13_FallsBackToBodyParameter ==
    (opc # "ready" /\ yielding = {} /\ bodyParamValues # <<>>) =>
        bodyResult = InfoOf(Head(bodyParamValues), "application/json")

\* C14: when neither the request body nor a body parameter yields a value,
\* extractRequestBody returns an empty contentType, an empty exampleBody and
\* no variables; contentType is not empty only if a body value was found.
C14_NothingFoundIsEmpty ==
    opc # "ready" =>
        /\ (yielding = {} /\ bodyParamValues = <<>>) => bodyResult = NoBodyInfo
        /\ bodyResult.contentType # "" => bodyResult.exampleBody # EmptyText

(***************************************************************************)
(* Claims about extractBodyVariablesFromAny, checked under SpecBodyVars.   *)
(***************************************************************************)
\* the object the variables are taken from: the value itself, or the first
\* element of a non-empty array when that element is an object
variableSource ==
    IF exampleIn.k = "map" THEN exampleIn.m
    ELSE IF exampleIn.k = "slice" /\ Len(exampleIn.a) > 0 /\ exampleIn.a[1].k = "map"
    THEN exampleIn.a[1].m
    ELSE EmptyMap
isNested(value) == value.k \in {"map", "slice"}

\* C15: the variables extractBodyVariablesFromAny returns are exactly the
\* top-level fields of the object (or of the first element of the array)
\* whose value is a string, a number, a boolean or null, each with its value;
\* a nested object or array is never a variable, and a primitive, an empty
\* array or an array that starts with a primitive has no variables.
C15_TopLevelScalarFields ==
    bodyVarsOut # NotCalled =>
        /\ DOMAIN bodyVarsOut = {n \in DOMAIN variableSource : ~isNested(variableSource[n])}
        /\ \A n \in DOMAIN bodyVarsOut : bodyVarsOut[n] = variableSource[n]

\* C15 witness: the call returned for an object with a nested object, a nested
\* array and a scalar field, and only the scalar field is a variable.
C15_Witness ==
    /\ bodyVarsOut # NotCalled
    /\ exampleIn.k = "map"
    /\ DOMAIN exampleIn.m = FieldNames
    /\ exampleIn.m["id"].k = "map"
    /\ exampleIn.m["tag"].k = "slice"
    /\ exampleIn.m["a"].k = "string"
    /\ DOMAIN bodyVarsOut = {"a"}

(***************************************************************************)
(* Claims about the file-name sanitizer, checked under SpecSanitize.       *)
(***************************************************************************)
\* rawPath without its leading and trailing slashes
inner == {x \in 1..Len(rawPath) : rawPath[x] # "/"}
strippedPath ==
    IF inner = {} THEN <<>>
    ELSE SubSeq(rawPath, CHOOSE x \in inner : \A y \in inner : x <= y,
                CHOOSE x \in inner : \A y \in inner : y <= x)
\* what becomes of one character
sanitizedChar(c) ==
    IF c \in {"/", "{"} THEN <<"_">>
    ELSE IF c = "}" THEN <<>>
    ELSE IF c \in Range(Lower) \cup Range(Upper) \cup Range(Digits) \cup {"_", ".", "-"}
    THEN <<c>>
    ELSE <<>>
expectedName == Concat([x \in 1..Len(strippedPath) |-> sanitizedChar(strippedPath[x])])

\* C16: sanitize strips the leading and trailing slashes, maps each "/" and
\* each "{" to "_", removes each "}" and deletes every other character
\* outside [A-Za-z0-9_.-]; the result is never empty ("root" when nothing
\* remains) and holds only characters of that class.
C16_SanitizedName ==
    sanitized # NotSanitized =>
        /\ sanitized = IF expectedName = <<>> THEN <<"r", "o", "o", "t">> ELSE expectedName
        /\ sanitized # <<>>
        /\ \A x \in 1..Len(sanitized) :
              sanitized[x] \in Range(Lower) \cup Range(Upper) \cup Range(Digits)
                                   \cup {"_", ".", "-"}
        /\ rawPath = <<"/">> => sanitized = <<"r", "o", "o", "t">>
        /\ rawPath = <<"/", "u", "s", "e", "r", "s", "/", "{", "i", "d", "}">>
              => sanitized = <<"u", "s", "e", "r", "s", "_", "_", "i", "d">>
        /\ rawPath = <<"/", "a", "p", "i", "/", "v", "1", "/", "u", "s", "e", "r", "s">>
              => sanitized = <<"a", "p", "i", "_", "v", "1", "_", "u", "s", "e", "r", "s">>

\* C16 witness: sanitize returned for a path with slashes at both ends, braces
\* and punctuation outside the class.
C16_Witness ==
    /\ sanitized # NotSanitized
    /\ rawPath = <<"/", "a", " ", "b", ":", "c", "?", "/", "{", "I", "d", "}", "{", "x", "}">>
    /\ sanitized = <<"a", "b", "c", "_", "_", "I", "d", "_", "x">>

(***************************************************************************)
(* Claims about the text of one artifact, checked under SpecOperation.     *)
(***************************************************************************)
\* the header comment: the line of the verb and path, and the summary line
headerLen == IF call.op.summary # <<>> THEN 2 ELSE 1
\* the lines between the header comment and the invocation that are not blank
variableLines ==
    SelectSeq(SubSeq(artifact, headerLen + 1, CurlLine(artifact) - 1), LAMBDA l : l # <<>>)
IsHeading(line) == Len(line) >= 2 /\ line[1] = "#" /\ line[2] = " "
\* a heading stands for its title, an assignment for "="
lineKind(line) ==
    IF IsHeading(line) THEN SubSeq(line, 3, Len(line))
    ELSE IF "=" \in Range(line) THEN <<"=">>
    ELSE <<"?">>
\* a block of n variables: nothing when n = 0, else its title and n assignments
blockKinds(title, n) == IF n = 0 THEN <<>> ELSE <<title>> \o [x \in 1..n |-> <<"=">>]
countIn(where) ==
    Cardinality({x \in 1..Len(call.op.parameters) :
                    call.op.parameters[x].value /\ call.op.parameters[x].in = where})
expectedKinds ==
    <<Tail(Tail(VariablesMarker)), <<"=">>>>
        \o blockKinds(<<"Path", " ", "Parameters">>, Len(extractPathParams(call.path)))
        \o blockKinds(<<"Query", " ", "Parameters">>, countIn("query"))
        \o blockKinds(<<"Headers">>, countIn("header"))
        \o blockKinds(<<"Form", " ", "Data">>, countIn("formData"))
        \o blockKinds(<<"Body">>, Cardinality(DOMAIN bodyResult.bodyVars))

bodyHeadingAt == {x \in 1..Len(variableLines) : variableLines[x] = <<"#", " ", "Body">>}
bodyNames ==
    IF bodyHeadingAt = {} THEN <<>>
    ELSE [x \in 1..(Len(variableLines) - (CHOOSE h \in bodyHeadingAt : TRUE)) |->
             BeforeEquals(variableLines[(CHOOSE h \in bodyHeadingAt : TRUE) + x])]

\* C18: the Body block lists one assignment per body variable under the
\* uppercased field name, and the names written are in ascending
\* lexicographic order for every set of body field names.
C18_BodyNamesAscending ==
    opc = "rendered" =>
        /\ Len(bodyNames) = Cardinality(DOMAIN bodyResult.bodyVars)
        /\ \A n \in DOMAIN bodyResult.bodyVars :
              \E x \in 1..Len(bodyNames) : bodyNames[x] = ToUpper(KeyChars(n))
        /\ \A x \in 1..(Len(bodyNames) - 1) : ~StrLess(bodyNames[x + 1], bodyNames[x])

\* the names assigned in the variables section, in the order written
assignedNames ==
    [x \in 1..Len(SelectSeq(variableLines, LAMBDA l : lineKind(l) = <<"=">>)) |->
        BeforeEquals(SelectSeq(variableLines, LAMBDA l : lineKind(l) = <<"=">>)[x])]

\* C19: in every artifact no variable name is assigned more than once across
\* BASE_URL and the path, query, header, form-data and body blocks.
C19_OneAssignmentPerName ==
    opc = "rendered" =>
        \A x, y \in 1..Len(assignedNames) : x # y => assignedNames[x] # assignedNames[y]

\* the lines of the invocation: the curl line and what follows it
invocationLines == SubSeq(artifact, CurlLine(artifact), Len(artifact))
hasFormFlags ==
    \E x \in 1..Len(invocationLines) :
        Len(invocationLines[x]) >= 3 /\ SubSeq(invocationLines[x], 1, 3) = <<" ", " ", "-F">>
hasHeredoc == \E x \in 1..Len(invocationLines) : "--data-binary" \in Range(invocationLines[x])
hasPlaceholder ==
    \E x \in 1..Len(invocationLines) :
        invocationLines[x] = <<" ", " ", "-d", " ", "'{\"foo\": \"bar\"}'">>
\* the only body information of the operation is an object schema without
\* properties
onlyShapelessSchema ==
    /\ hasRequestBody
    /\ call.op.parameters = <<>>
    /\ DOMAIN call.op.requestBody.content # {}
    /\ \A c \in DOMAIN call.op.requestBody.content :
          call.op.requestBody.content[c] = MediaType(NilV, EmptyMap, 3)

\* C20: buildCurlCommand emits at most one of the form-data flags, the heredoc
\* body and the placeholder body; it emits the placeholder exactly when the
\* operation declares a request body, no body value was synthesized and there
\* are no form-data parameters; an operation whose only body information is
\* an object schema without properties gets the placeholder and no heredoc.
C20_OneBodyForm ==
    opc = "rendered" =>
        /\ ~(hasFormFlags /\ hasHeredoc)
        /\ ~(hasFormFlags /\ hasPlaceholder)
        /\ ~(hasHeredoc /\ hasPlaceholder)
        /\ hasPlaceholder <=> /\ call.op.requestBody.present
                              /\ bodyResult.exampleBody = EmptyText
                              /\ countIn("formData") = 0
        /\ onlyShapelessSchema => (hasPlaceholder /\ ~hasHeredoc)

\* C20 witness: the artifact of an operation whose only body information is an
\* object schema without properties ends in the placeholder body.
C20_Witness ==
    /\ opc = "rendered"
    /\ onlyShapelessSchema
    /\ hasPlaceholder
    /\ ~hasHeredoc

\* the names of the ${NAME} placeholders of a line
placeholdersOf(line) ==
    {SubSeq(line, ab[1] + 2, ab[2] - 1) :
        ab \in {x \in (1..Len(line)) \X (1..Len(line)) :
                   /\ x[1] + 2 <= x[2]
                   /\ line[x[1]] = "$" /\ line[x[1] + 1] = "{" /\ line[x[2]] = "}"
                   /\ \A y \in (x[1] + 2)..(x[2] - 1) : line[y] # "}"}}
\* the placeholders of the invocation: URL, query string, flags and heredoc
placeholders == UNION {placeholdersOf(invocationLines[x]) : x \in 1..Len(invocationLines)}

\* C29: every ${NAME} placeholder of an artifact's curl invocation (URL path,
\* query string, header flags, form-data flags, heredoc body) is assigned in
\* the variables section of the same artifact.
C29_PlaceholdersAssigned ==
    opc = "rendered" =>
        \A n \in placeholders : \E x \in 1..Len(assignedNames) : assignedNames[x] = n

\* C29 witness: an artifact whose invocation has placeholders in the URL
\* path, the query string, a header flag and the heredoc body.
C29_Witness ==
    /\ opc = "rendered"
    /\ hasHeredoc
    /\ DOMAIN bodyResult.bodyVars # {}
    /\ Len(extractPathParams(call.path)) > 0
    /\ countIn("query") > 0
    /\ countIn("header") > 0
    /\ Cardinality(placeholders) >= 5
(***************************************************************************)
(* SpecParams: extractRequestParameters (generate.go:163-195) is called on *)
(* one path template and one operation's declared parameters.              *)
(***************************************************************************)
MaxParams == 3
ParamMenu ==
    {NilParam,
     Param(<<"i", "d">>, "query", 2),
     Param(<<"i", "d">>, "path", 2),
     Param(<<"i", "d">>, "body", 1),
     Param(<<"X", "-", "I", "d">>, "header", NilRef),
     Param(<<"x", "-", "a", "-", "b">>, "header", NilRef),
     Param(<<"f", "i", "l", "e">>, "formData", NilRef),
     Param(<<"q">>, "cookie", NilRef),
     Param(<<"q">>, "Query", NilRef)}
DeclaredParams == UNION {[1..n -> ParamMenu] : n \in 0..MaxParams}
TemplateMenu ==
    {<<"/">>,
     <<"/", "u", "s", "e", "r", "s", "/", "{", "i", "d", "}">>,
     <<"/", "{", "i", "d", "}", "/", "{", "i", "d", "}">>,
     <<"/", "{", "a", "}", "{", "}", "/", "{", "{", "b", "}", "}">>}

InitParams ==
    /\ schemas = DocSchemas
    /\ SchemaIdle
    /\ PathIdle
    /\ GenIdle
    /\ OpIdle
    /\ BodyVarsIdle
    /\ SanitizeIdle
    /\ ExecIdle
    /\ ApplyIdle
    /\ LaunchIdle
    /\ paramsCall \in {[path |-> t, op |-> Operation(<<>>, ps, NoRequestBody)] :
                          t \in TemplateMenu, ps \in DeclaredParams}
    /\ paramSet = NotCalled

\* generate.go:109, the call extractRequestParameters(path, op, doc)
CallExtractRequestParameters ==
    /\ paramSet = NotCalled
    /\ paramSet' = extractRequestParameters(paramsCall.path, paramsCall.op)
    /\ UNCHANGED <<schemas, schemaVars, pathVars, genVars, envVars, opVars, exampleIn,
                   bodyVarsOut, rawPath, sanitized, paramsCall, execVars, applyVars,
                   launchVars>>

NextParams == CallExtractRequestParameters

SpecParams == InitParams /\ [][NextParams]_vars

(***************************************************************************)
(* Claims about extractRequestParameters, checked under SpecParams.        *)
(***************************************************************************)
declared == paramsCall.op.parameters
\* the positions of the declared parameters with a value and the location loc
declaredIn(loc) == {k \in 1..Len(declared) : declared[k].value /\ declared[k].in = loc}
\* the x-th position of S in declaration order
nthOf(S, x) == CHOOSE k \in S : Cardinality({j \in S : j <= k}) = x
\* the variable name of a parameter in the bucket of loc
variableName(loc, name) ==
    [x \in 1..Len(name) |->
        IF loc = "header" /\ name[x] = "-" THEN "_" ELSE ToUpperChar(name[x])]
bucketOf(loc) ==
    CASE loc = "query" -> paramSet.queryParams
      [] loc = "header" -> paramSet.headerParams
      [] loc = "formData" -> paramSet.formDataParams

\* C23: extractRequestParameters returns a parameter set for every input;
\* the query, header and formData buckets hold, in declaration order, one
\* name per declared parameter with a value and that location, the name
\* uppercased (and "-" replaced by "_" in header names); parameters without a
\* value or with another location are in no bucket; the path bucket holds
\* the names of the tokens of the path template, declared or not.
C23_PartitionedByLocation ==
    paramSet # NotCalled =>
        /\ \A loc \in {"query", "header", "formData"} :
              /\ Len(bucketOf(loc)) = Cardinality(declaredIn(loc))
              /\ \A x \in 1..Len(bucketOf(loc)) :
                    bucketOf(loc)[x] = variableName(loc, declared[nthOf(declaredIn(loc), x)].name)
        /\ Len(paramSet.pathParams) = Len(TokenSpans(paramsCall.path))
        /\ \A x \in 1..Len(paramSet.pathParams) :
              paramSet.pathParams[x] =
                  SubSeq(paramsCall.path, TokenSpans(paramsCall.path)[x].from + 1,
                         TokenSpans(paramsCall.path)[x].to - 1)

\* C23 witness: a call with a header parameter whose name holds a "-", a
\* parameter without a value, one with another location and a path token
\* that is not declared has returned.
C23_Witness ==
    /\ paramSet # NotCalled
    /\ \E k \in declaredIn("header") : "-" \in Range(declared[k].name)
    /\ \E k \in 1..Len(declared) : ~declared[k].value
    /\ \E k \in 1..Len(declared) : declared[k].value /\ declared[k].in \in {"cookie", "body"}
    /\ paramSet.pathParams # <<>>
    /\ declaredIn("path") = {}
(***************************************************************************)
(* Claims about the failures of generateCollection, checked under Spec.    *)
(***************************************************************************)
\* the declared operations whose artifact cannot be written
unwritableOperations == {pv \in DeclaredOperations(doc) : fileNameOf(pv[2], pv[1]) \in faults.unwritable}
envsWarnings == IF EnvsFile \in faults.unwritable THEN 1 ELSE 0
wasWritten(pv) == \E x \in 1..Len(written) : written[x].template = pv[1] /\ written[x].method = pv[2]

\* C21: a failure to write one operation's artifact, or envs.yml, is not
\* fatal: once the output directory was created generateCollection returns
\* no error, and when it returns every declared operation of every path was
\* attempted exactly once (written, or warned about when its file cannot be
\* written), envs.yml was attempted after them, and the result is nil.
C21_WriteFailuresNotFatal ==
    /\ outDir.exists => (gpc \notin {"failed", "crashed"} /\ retval \in {"none", "nil"})
    /\ gpc = "done" =>
          /\ retval = "nil"
          /\ Len(written) + warnings = Cardinality(DeclaredOperations(doc)) + envsWarnings
          /\ warnings = Cardinality(unwritableOperations) + envsWarnings
          /\ \A pv \in DeclaredOperations(doc) \ unwritableOperations : wasWritten(pv)
          /\ EnvsFile \notin faults.unwritable => EnvsFile \in DOMAIN outDir.files

\* C21 witness: a run has returned after the artifact of one operation could
\* not be written and the artifact of another operation was written.
C21_Witness ==
    /\ gpc = "done"
    /\ unwritableOperations # {}
    /\ Len(written) > 0
    /\ retval = "nil"

\* C22: when loading the description fails generateCollection returns the
\* load error and has created neither the output directory nor any file;
\* when creating the output directory fails it returns that error and has
\* written no artifact and no envs.yml.
C22_FatalFailures ==
    /\ faults.load =>
          /\ gpc \in {"start", "failed"}
          /\ gpc = "failed" => retval = "failed to load OpenAPI file"
          /\ ~outDir.exists /\ outDir.files = NoFiles /\ written = <<>>
    /\ faults.mkdir =>
          /\ gpc \in {"start", "loaded", "failed"}
          /\ gpc = "failed" => retval = "failed to create output dir"
          /\ outDir.files = NoFiles /\ written = <<>>

\* C22 witness: generateCollection has returned the load error.
C22_Witness == gpc = "failed" /\ faults.load /\ retval = "failed to load OpenAPI file"

(***************************************************************************)
(* SpecExec: execCmd (root.go:249-356) with the goroutines it starts: the  *)
(* interrupt handler (root.go:267-271) and, in parallel mode, one          *)
(* goroutine per execution of a batch (root.go:309-327), each recording    *)
(* its outcome in the ExecutionStats (root.go:39-48).  The time.Sleep of   *)
(* root.go:297-299 takes time and changes nothing.                         *)
(***************************************************************************)
MaxTimes == 5
MaxParallel == 4
Workers == 1..MaxParallel
Min(a, b) == IF a <= b THEN a ELSE b

\* root.go:281 with the division rounded down
batchesRoundedDown == times \div parallel
\* root.go:281
batches == (times + parallel - 1) \div parallel
\* ctx.Done() is closed once cancel() was called
ctxDone == sig = "cancelled"
\* the error of execShellCommand (root.go:369)
ExitError == "command exited with error"
IdleWorker == [pc |-> "idle", seen |-> <<>>]

InitExec ==
    /\ schemas = <<>>
    /\ SchemaIdle
    /\ PathIdle
    /\ GenIdle
    /\ OpIdle
    /\ BodyVarsIdle
    /\ SanitizeIdle
    /\ ParamsIdle
    /\ ApplyIdle
    /\ LaunchIdle
    /\ times \in 1..MaxTimes
    /\ parallel \in 1..Min(times, MaxParallel)
    /\ epc = "loop"
    /\ batchNum = 0
    /\ batchSize = 0
    /\ remaining = times
    /\ completed = 0
    /\ workers = [w \in Workers |-> IdleWorker]
    /\ stats = [Success |-> 0, Failed |-> 0, Errors |-> <<>>]
    /\ errorsMux = 0
    /\ sig = "none"
    /\ execRet = "none"
    /\ started = 0
    /\ inBatch = 0
    /\ calls = [RecordSuccess |-> 0, RecordFailure |-> 0]

execOthers == <<schemas, schemaVars, pathVars, genVars, envVars, opVars, exampleIn, bodyVarsOut,
                rawPath, sanitized, paramVars, applyVars, launchVars>>

\* a signal arrives in sigCh (root.go:263-264)
Interrupt ==
    /\ epc \notin {"idle", "returned"}
    /\ sig = "none"
    /\ sig' = "pending"
    /\ UNCHANGED <<execOthers, times, parallel, epc, batchNum, batchSize, remaining, completed,
                   workers, stats, errorsMux, execRet, started, inBatch,
                   calls>>

\* root.go:267-271: the handler goroutine receives the signal and cancels
HandleSignal ==
    /\ epc \notin {"idle", "returned"}
    /\ sig = "pending"
    /\ sig' = "cancelled"
    /\ UNCHANGED <<execOthers, times, parallel, epc, batchNum, batchSize, remaining, completed,
                   workers, stats, errorsMux, execRet, started, inBatch,
                   calls>>

\* root.go:285-295: the select at the head of an iteration finds ctx done
ReturnCancelled ==
    /\ epc = "loop"
    /\ batchNum < batches
    /\ ctxDone
    /\ epc' = "returned"
    /\ execRet' = "execution cancelled"
    /\ UNCHANGED <<execOthers, times, parallel, batchNum, batchSize, remaining, completed,
                   workers, stats, errorsMux, sig, started, inBatch,
                   calls>>

\* root.go:285-328: an iteration starts; in parallel mode it starts batchSize
\* goroutines, in sequential mode it calls execShellCommand itself
StartBatch ==
    /\ epc = "loop"
    /\ batchNum < batches
    /\ ~ctxDone
    /\ batchSize' = Min(remaining, parallel)
    /\ remaining' = remaining - batchSize'
    /\ IF parallel > 1
       THEN /\ workers' = [w \in Workers |->
                              IF w <= batchSize' THEN [pc |-> "spawned", seen |-> <<>>]
                              ELSE IdleWorker]
            /\ epc' = "wait"
            /\ inBatch' = 0
            /\ UNCHANGED started
       ELSE /\ epc' = "running"
            /\ started' = started + 1
            /\ inBatch' = 1
            /\ UNCHANGED workers
    /\ UNCHANGED <<execOthers, times, parallel, batchNum, completed, stats, errorsMux, sig,
                   execRet,
                   calls>>

\* root.go:312-319: a goroutine checks ctx and calls execShellCommand, or returns
WorkerCheck(w) ==
    /\ workers[w].pc = "spawned"
    /\ IF ctxDone
       THEN /\ workers' = [workers EXCEPT ![w].pc = "done"]
            /\ UNCHANGED <<started, inBatch>>
       ELSE /\ workers' = [workers EXCEPT ![w].pc = "running"]
            /\ started' = started + 1
            /\ inBatch' = inBatch + 1
    /\ UNCHANGED <<execOthers, times, parallel, epc, batchNum, batchSize, remaining, completed,
                   stats, errorsMux, sig, execRet,
                   calls>>

\* root.go:39-41, atomic.AddInt32(&s.Success, 1)
RecordSuccess(s) == [s EXCEPT !.Success = s.Success + 1]
\* root.go:44, atomic.AddInt32(&s.Failed, 1)
AddFailed(s) == [s EXCEPT !.Failed = s.Failed + 1]

\* root.go:319-326: the command of a goroutine ends; a success is recorded,
\* a failure is counted and its message is still to be appended
WorkerFinish(w) ==
    /\ workers[w].pc = "running"
    /\ \E ok \in BOOLEAN :
          IF ok
          THEN /\ stats' = RecordSuccess(stats)
               /\ calls' = [calls EXCEPT !.RecordSuccess = @ + 1]
               /\ workers' = [workers EXCEPT ![w].pc = "done"]
          ELSE /\ stats' = AddFailed(stats)
               /\ calls' = [calls EXCEPT !.RecordFailure = @ + 1]
               /\ workers' = [workers EXCEPT ![w].pc = "lock"]
    /\ UNCHANGED <<execOthers, times, parallel, epc, batchNum, batchSize, remaining, completed,
                   errorsMux, sig, execRet, started, inBatch>>

\* sync.Mutex.Lock returns only when no goroutine holds the mutex, without it
mutexAlwaysFree(holder) == TRUE
\* sync.Mutex.Lock returns only when no goroutine holds the mutex
mutexFree(holder) == holder = 0

\* root.go:45-46: s.errorsMux.Lock() and the read of s.Errors by append
WorkerLock(w) ==
    /\ workers[w].pc = "lock"
    /\ mutexFree(errorsMux)
    /\ errorsMux' = w
    /\ workers' = [workers EXCEPT ![w] = [pc |-> "append", seen |-> stats.Errors]]
    /\ UNCHANGED <<execOthers, times, parallel, epc, batchNum, batchSize, remaining, completed,
                   stats, sig, execRet, started, inBatch,
                   calls>>

\* root.go:46-47: the assignment to s.Errors and s.errorsMux.Unlock()
WorkerAppend(w) ==
    /\ workers[w].pc = "append"
    /\ stats' = [stats EXCEPT !.Errors = Append(workers[w].seen, ExitError)]
    /\ errorsMux' = 0
    /\ workers' = [workers EXCEPT ![w] = [pc |-> "done", seen |-> <<>>]]
    /\ UNCHANGED <<execOthers, times, parallel, epc, batchNum, batchSize, remaining, completed,
                   sig, execRet, started, inBatch,
                   calls>>

\* root.go:329 and 342: wg.Wait() returns and the iteration ends
WaitBatch ==
    /\ epc = "wait"
    /\ \A w \in Workers : workers[w].pc \in {"idle", "done"}
    /\ workers' = [w \in Workers |-> IdleWorker]
    /\ completed' = completed + batchSize
    /\ batchNum' = batchNum + 1
    /\ epc' = "loop"
    /\ UNCHANGED <<execOthers, times, parallel, batchSize, remaining, stats, errorsMux, sig,
                   execRet, started, inBatch,
                   calls>>

\* root.go:43-48 called by the goroutine of execCmd itself
RecordFailure(s) == [AddFailed(s) EXCEPT !.Errors = Append(s.Errors, ExitError)]

\* root.go:331-342 without the return of line 337
SeqFinishContinuing ==
    /\ epc = "running"
    /\ \E ok \in BOOLEAN :
          /\ IF ok
             THEN /\ stats' = RecordSuccess(stats)
                  /\ calls' = [calls EXCEPT !.RecordSuccess = @ + 1]
             ELSE /\ stats' = RecordFailure(stats)
                  /\ calls' = [calls EXCEPT !.RecordFailure = @ + 1]
          /\ completed' = completed + batchSize
          /\ batchNum' = batchNum + 1
          /\ epc' = "loop"
          /\ UNCHANGED execRet
    /\ UNCHANGED <<execOthers, times, parallel, batchSize, remaining, workers, errorsMux, sig,
                   started, inBatch>>
\* root.go:331-342: the command of a sequential iteration ends
SeqFinish ==
    /\ epc = "running"
    /\ \E ok \in BOOLEAN :
          IF ok
          THEN /\ stats' = RecordSuccess(stats)
               /\ calls' = [calls EXCEPT !.RecordSuccess = @ + 1]
               /\ completed' = completed + batchSize
               /\ batchNum' = batchNum + 1
               /\ epc' = "loop"
               /\ UNCHANGED execRet
          ELSE /\ stats' = RecordFailure(stats)
               /\ calls' = [calls EXCEPT !.RecordFailure = @ + 1]
               /\ epc' = "returned"
               /\ execRet' = "command execution failed"
               /\ UNCHANGED <<completed, batchNum>>
    /\ UNCHANGED <<execOthers, times, parallel, batchSize, remaining, workers, errorsMux, sig,
                   started, inBatch>>

\* root.go:348-355: the loop is over
ReturnNil ==
    /\ epc = "loop"
    /\ batchNum = batches
    /\ epc' = "returned"
    /\ execRet' = "nil"
    /\ UNCHANGED <<execOthers, times, parallel, batchNum, batchSize, remaining, completed,
                   workers, stats, errorsMux, sig, started, inBatch,
                   calls>>

NextExec ==
    \/ Interrupt
    \/ HandleSignal
    \/ ReturnCancelled
    \/ StartBatch
    \/ \E w \in Workers : WorkerCheck(w)
    \/ \E w \in Workers : WorkerFinish(w)
    \/ \E w \in Workers : WorkerLock(w)
    \/ \E w \in Workers : WorkerAppend(w)
    \/ WaitBatch
    \/ SeqFinish
    \/ ReturnNil

SpecExec == InitExec /\ [][NextExec]_vars

(***************************************************************************)
(* Claims about execCmd and the ExecutionStats, checked under SpecExec.    *)
(***************************************************************************)
\* the executions that have started and not ended
inFlight ==
    Cardinality({w \in Workers : workers[w].pc = "running"})
        + (IF epc = "running" THEN 1 ELSE 0)
\* no goroutine of a batch is left
noWorkerLeft == \A w \in Workers : workers[w].pc \in {"idle", "done"}
\* no interrupt has arrived and no execution has failed
undisturbed == sig = "none" /\ calls.RecordFailure = 0
\* a divided by b, rounded up
ceilDiv(a, b) == CHOOSE q \in 0..a : q * b >= a /\ (q - 1) * b < a

\* C24: in a run with 1 <= parallel <= times, without interrupt and without
\* failing execution, at most `parallel` executions are in flight and at most
\* `parallel` belong to one batch; between two batches no execution is in
\* flight and every earlier batch but the last was full; and execCmd returns
\* nil after exactly `times` executions in ceil(times/parallel) batches.
C24_BatchesOfParallel ==
    (epc # "idle" /\ undisturbed) =>
        /\ inFlight <= parallel
        /\ inBatch <= parallel
        /\ epc = "loop" =>
              /\ inFlight = 0 /\ noWorkerLeft
              /\ started = Min(batchNum * parallel, times)
        /\ epc = "returned" =>
              /\ execRet = "nil"
              /\ started = times
              /\ stats.Success = times
              /\ batchNum = ceilDiv(times, parallel)

\* C24 witness: an undisturbed parallel run has returned after several
\* batches, the last of them smaller than the others.
C24_Witness ==
    /\ epc = "returned"
    /\ undisturbed
    /\ parallel > 1
    /\ batchNum > 1
    /\ batchSize < parallel

\* C25: whatever the interleaving of the goroutines, Success is the number of
\* RecordSuccess calls, Failed the number of RecordFailure calls, the Errors
\* list is never longer than Failed, and once every call has returned it has
\* exactly Failed entries.
C25_StatsConcurrencySafe ==
    epc # "idle" =>
        /\ stats.Success = calls.RecordSuccess
        /\ stats.Failed = calls.RecordFailure
        /\ Len(stats.Errors) <= stats.Failed
        /\ noWorkerLeft => Len(stats.Errors) = stats.Failed

\* C25 witness: the goroutines of one batch have recorded two failures and a
\* success, and all have returned.
C25_Witness ==
    /\ epc = "returned"
    /\ batches = 1
    /\ calls.RecordFailure >= 2
    /\ calls.RecordSuccess >= 1
    /\ Len(stats.Errors) = calls.RecordFailure

\* C27: in sequential mode (parallel = 1) the first failing execution ends
\* the run: execCmd has returned the `command execution failed` error, the
\* failure is in the statistics (Failed = 1 and its message in Errors), and
\* no execution was started after the failing one.
C27_SequentialFailFast ==
    (parallel = 1 /\ calls.RecordFailure > 0) =>
        /\ epc = "returned"
        /\ execRet = "command execution failed"
        /\ stats.Failed = 1
        /\ stats.Errors = <<ExitError>>
        /\ started = stats.Success + 1

\* C27 witness: a sequential run of several executions has ended at a failing
\* execution that was neither the first nor the last.
C27_Witness ==
    /\ parallel = 1
    /\ epc = "returned"
    /\ execRet = "command execution failed"
    /\ stats.Success >= 1
    /\ started < times

\* C28: execCmd returns nil only if the command was executed `times` times;
\* a run in which an interrupt made an execution be skipped returns the
\* `execution cancelled` error.
C28_NilOnlyAfterAllExecutions ==
    (epc = "returned" /\ execRet # "command execution failed") =>
        /\ execRet = "nil" => started = times
        /\ started < times => execRet = "execution cancelled"

(***************************************************************************)
(* SpecApply: applyEnvironmentVars (root.go:420-453) is called on the text *)
(* of a file, a sequence of characters with "\n" between its lines.        *)
(***************************************************************************)
LineBreak == "\n"
\* strings.Split(str, "\n") (root.go:421)
RECURSIVE SplitLines(_)
SplitLines(str) ==
    IF LineBreak \notin Range(str) THEN <<str>>
    ELSE LET k == CHOOSE x \in 1..Len(str) :
                      str[x] = LineBreak /\ \A y \in 1..(x - 1) : str[y] # LineBreak
         IN <<SubSeq(str, 1, k - 1)>> \o SplitLines(SubSeq(str, k + 1, Len(str)))

\* root.go:420-453 from the string to the string
applyEnvironmentVarsText(content, environment) ==
    Join(applyEnvironmentVars(SplitLines(content), environment), <<LineBreak>>)

MaxLines == 4
LineMenu ==
    {VariablesMarker,
     <<>>,
     <<" ", " ">>,
     <<"A", "=", "\"", "1", "\"">>,
     <<" ", "A", " ", "=", "x", "=", "y">>,
     <<"B", "=", "2">>,
     <<"curl", " ", "-", "d", " ", "A", "=", "1">>}
FileTexts == {Join(ls, <<LineBreak>>) : ls \in UNION {[1..n -> LineMenu] : n \in 0..MaxLines}}
\* the last environment gives A a value that is a line break
ApplyEnvironments ==
    {NoFiles,
     (<<"A">> :> "v"),
     (<<"A">> :> "v") @@ (<<"B">> :> "w"),
     (<<"A">> :> LineBreak)}

InitApply ==
    /\ schemas = <<>>
    /\ SchemaIdle
    /\ PathIdle
    /\ GenIdle
    /\ OpIdle
    /\ BodyVarsIdle
    /\ SanitizeIdle
    /\ ParamsIdle
    /\ ExecIdle
    /\ LaunchIdle
    /\ applyIn \in [content : FileTexts, env : ApplyEnvironments]
    /\ applyOut = NotReturned

\* root.go:200 and 391, the call applyEnvironmentVars(contentStr, envVars)
CallApplyEnvironmentVars ==
    /\ applyOut = NotReturned
    /\ applyOut' = applyEnvironmentVarsText(applyIn.content, applyIn.env)
    /\ UNCHANGED <<schemas, schemaVars, pathVars, genVars, envVars, opVars, exampleIn,
                   bodyVarsOut, rawPath, sanitized, paramVars, execVars, applyIn, launchVars>>

NextApply == CallApplyEnvironmentVars

SpecApply == InitApply /\ [][NextApply]_vars

(***************************************************************************)
(* Claims about applyEnvironmentVars, checked under SpecApply.             *)
(***************************************************************************)
inLines == SplitLines(applyIn.content)
outLines == SplitLines(applyOut)
isMarker(line) == TrimSpace(line) = VariablesMarker
endsSection(line) == TrimSpace(line) = <<>> \/ HasPrefixCurl(TrimSpace(line))
\* line x comes after a `# Variables` line, with no blank line and no line
\* starting with curl from there up to and including x
inSection(x) ==
    \E m \in 1..(x - 1) :
        isMarker(inLines[m]) /\ \A y \in (m + 1)..x : ~endsSection(inLines[y])
assignedName(line) == TrimSpace(BeforeEquals(line))
\* line x is an assignment of the variable section to a name of the environment
isRewritten(x) ==
    /\ inSection(x)
    /\ "=" \in Range(inLines[x])
    /\ assignedName(inLines[x]) \in DOMAIN applyIn.env
\* what the claim lets line x become
expectedLine(x) ==
    IF isRewritten(x)
    THEN assignedName(inLines[x])
             \o <<"=", "\"", applyIn.env[assignedName(inLines[x])], "\"">>
    ELSE inLines[x]
noLineBreakInValues == \A n \in DOMAIN applyIn.env : applyIn.env[n] # LineBreak

\* C26 as stated: the result has as many lines as the content, in the same
\* order; each assignment line of the variable section whose name the
\* environment defines is NAME="value", every other line is unchanged.
C26_FrameAsStated ==
    applyOut # NotReturned =>
        /\ Len(outLines) = Len(inLines)
        /\ \A x \in 1..Len(inLines) : outLines[x] = expectedLine(x)

\* C26 amended: the result is the content with each assignment line of the
\* variable section whose name the environment defines replaced by the text
\* NAME="value" and every other line unchanged, in the same order; when no
\* value of the environment holds a line break, the result has as many
\* lines as the content and is that line by line.
C26_OnlyEnvironmentAssignments ==
    applyOut # NotReturned =>
        /\ applyOut = Join([x \in 1..Len(inLines) |-> expectedLine(x)], <<LineBreak>>)
        /\ noLineBreakInValues =>
              /\ Len(outLines) = Len(inLines)
              /\ \A x \in 1..Len(inLines) : outLines[x] = expectedLine(x)

\* C26 witness: a call has rewritten an assignment of the variable section
\* and has left an assignment to the same name outside the section, and one
\* line starting with curl, as they were.
C26_Witness ==
    /\ applyOut # NotReturned
    /\ noLineBreakInValues
    /\ \E x \in 1..Len(inLines) : isRewritten(x) /\ outLines[x] # inLines[x]
    /\ \E x \in 1..Len(inLines) :
          /\ ~inSection(x)
          /\ ~HasPrefixCurl(inLines[x])
          /\ "=" \in Range(inLines[x])
          /\ assignedName(inLines[x]) \in DOMAIN applyIn.env
    /\ \E x \in 1..Len(inLines) : HasPrefixCurl(inLines[x])

(***************************************************************************)
(* SpecLaunch: launchCollection (root.go:152-233) on a collection          *)
(* directory: the selection, the temporary copy, the editor and the read   *)
(* of the edited copy.  A file name is a sequence of pieces, a content a   *)
(* sequence of characters.                                                 *)
(***************************************************************************)
\* root.go:487-509: the lines from the first one that is neither blank nor a
\* comment
RECURSIVE dropLeading(_)
dropLeading(lines) ==
    IF lines = <<>> THEN <<>>
    ELSE IF TrimSpace(Head(lines)) = <<>> \/ Head(TrimSpace(Head(lines))) = "#"
         THEN dropLeading(Tail(lines))
         ELSE lines
extractShellCommand(content) == Join(dropLeading(SplitLines(content)), <<LineBreak>>)

\* the files of a directory: with one more, with one less
withFile(files, name, content) ==
    [n \in DOMAIN files \cup {name} |-> IF n = name THEN content ELSE files[n]]
withoutFile(files, name) == [n \in DOMAIN files \ {name} |-> files[n]]

\* root.go:202
tmpFileOf(selected) == selected \o <<".tmp">>
\* root.go:195-201: what is written to the temporary copy
copyText(content, insecure, envName, environment) ==
    LET withK == IF insecure
                 THEN ReplaceAll(content, <<"curl", " ">>, <<"curl", " ", "-k", " ">>)
                 ELSE content
    IN IF envName # "" THEN applyEnvironmentVarsText(withK, environment) ELSE withK

\* root.go:207, the deferred os.Remove(tmpFile), left out
returningWithoutRemove(files, tmpFile, isDeferred) == files
\* root.go:207: what a return leaves of the directory once the deferred
\* os.Remove(tmpFile) is registered
returning(files, tmpFile, isDeferred) ==
    IF isDeferred THEN withoutFile(files, tmpFile) ELSE files

CurlA == <<"a", ".curl">>
CurlB == <<"b", ".curl">>
ArtifactText ==
    Join(<<<<"#", " ", "G", "E", "T">>, <<>>, VariablesMarker,
           <<"A", "=", "\"", "1", "\"">>, <<>>,
           <<"curl", " ", "$", "{", "A", "}">>>>, <<LineBreak>>)
CollectionTexts ==
    {ArtifactText, <<>>, <<"#", " ", "x">>, <<"curl", " ", "x">>}
\* what the user may leave in the file the editor was given
EditedTexts == {<<>>, <<"curl", " ", "y">>, <<"#", " ", "z", LineBreak, "e", "c", "h", "o">>}
Collections ==
    {(CurlA :> x[1]) @@ (CurlB :> x[2]) : x \in CollectionTexts \X {<<"curl", " ", "x">>}}
    \cup {(CurlA :> t) @@ (tmpFileOf(CurlA) :> <<"o", "l", "d">>) : t \in CollectionTexts}
NoResult == [cmdText |-> <<>>, err |-> "nil"]
Failure(msg) == [cmdText |-> <<>>, err |-> msg]

InitLaunch ==
    /\ schemas = <<>>
    /\ SchemaIdle
    /\ PathIdle
    /\ GenIdle
    /\ OpIdle
    /\ BodyVarsIdle
    /\ SanitizeIdle
    /\ ParamsIdle
    /\ ExecIdle
    /\ ApplyIdle
    /\ fsys \in Collections
    /\ launchIn \in {[dir |-> fsys, selected |-> <<>>, insecure |-> k, envName |-> e[1],
                      env |-> e[2], edited |-> FALSE] :
                        k \in BOOLEAN, e \in {<<"", NoFiles>>, <<"dev", (<<"A">> :> "v")>>}}
    /\ lpc = "start"
    /\ deferred = FALSE
    /\ launchRet = NotCalled

launchOthers == <<schemas, schemaVars, pathVars, genVars, envVars, opVars, exampleIn,
                  bodyVarsOut, rawPath, sanitized, paramVars, execVars, applyVars>>

\* root.go:153-188: the environment is loaded, the directory is walked and the
\* user selects one of the .curl files, or one of these steps ends the call
SelectFile ==
    /\ lpc = "start"
    /\ \/ /\ launchIn.envName # ""
          /\ launchRet' = Failure("failed to load envs.yml")
          /\ lpc' = "returned" /\ UNCHANGED launchIn
       \/ /\ \E msg \in {"walk failed", "fzf failed"} : launchRet' = Failure(msg)
          /\ lpc' = "returned" /\ UNCHANGED launchIn
       \/ /\ launchRet' = NoResult
          /\ lpc' = "returned" /\ UNCHANGED launchIn
       \/ /\ \E f \in {n \in DOMAIN fsys : n[Len(n)] = ".curl"} :
                launchIn' = [launchIn EXCEPT !.selected = f]
          /\ lpc' = "selected" /\ UNCHANGED launchRet
    /\ UNCHANGED <<launchOthers, fsys, deferred>>

\* root.go:190-207: the selected file is read and the copy is written; a
\* failed os.WriteFile may leave a truncated file
MakeCopy ==
    /\ lpc = "selected"
    /\ \/ /\ launchRet' = Failure("failed to read file")
          /\ lpc' = "returned" /\ UNCHANGED <<fsys, deferred>>
       \/ /\ launchRet' = Failure("failed to write temp file")
          /\ fsys' \in {fsys, withFile(fsys, tmpFileOf(launchIn.selected), <<>>)}
          /\ lpc' = "returned" /\ UNCHANGED deferred
       \/ /\ fsys' = withFile(fsys, tmpFileOf(launchIn.selected),
                              copyText(fsys[launchIn.selected], launchIn.insecure,
                                       launchIn.envName, launchIn.env))
          /\ deferred' = TRUE
          /\ lpc' = "editing" /\ UNCHANGED launchRet
    /\ UNCHANGED <<launchOthers, launchIn>>

\* root.go:209-220: the editor runs on the copy; the user may change or
\* delete it; the editor may end with an error
RunEditor ==
    /\ lpc = "editing"
    /\ \E after \in {fsys, withoutFile(fsys, tmpFileOf(launchIn.selected))}
                       \cup {withFile(fsys, tmpFileOf(launchIn.selected), t) : t \in EditedTexts} :
          /\ launchIn' = [launchIn EXCEPT !.edited = after # fsys]
          /\ \/ /\ launchRet' = Failure("editor failed")
                /\ fsys' = returning(after, tmpFileOf(launchIn.selected), deferred)
                /\ lpc' = "returned"
             \/ /\ fsys' = after
                /\ lpc' = "edited" /\ UNCHANGED launchRet
    /\ UNCHANGED <<launchOthers, deferred>>

\* root.go:222-232: the copy is read and the command is extracted
ReadCopy ==
    /\ lpc = "edited"
    /\ \/ /\ launchRet' = Failure("failed to read file after editing")
       \/ /\ tmpFileOf(launchIn.selected) \in DOMAIN fsys
          /\ LET cmdText == extractShellCommand(fsys[tmpFileOf(launchIn.selected)])
             IN launchRet' = IF cmdText = <<>> THEN Failure("no curl command found in file")
                             ELSE [cmdText |-> cmdText, err |-> "nil"]
    /\ fsys' = returning(fsys, tmpFileOf(launchIn.selected), deferred)
    /\ lpc' = "returned"
    /\ UNCHANGED <<launchOthers, launchIn, deferred>>

NextLaunch == SelectFile \/ MakeCopy \/ RunEditor \/ ReadCopy

SpecLaunch == InitLaunch /\ [][NextLaunch]_vars

(***************************************************************************)
(* Claims about launchCollection, checked under SpecLaunch.                *)
(***************************************************************************)
tmpCopy == tmpFileOf(launchIn.selected)

\* C30: interactive mode changes no file of the collection but the
\* temporary copy <file>.tmp: the selected .curl file and every other file
\* keep their content whatever -k, the environment and the user's edits do,
\* and once the copy was written it is gone when launchCollection has
\* returned, on every path.
C30_OnlyTemporaryCopy ==
    lpc # "idle" =>
        /\ \A n \in DOMAIN launchIn.dir \ {tmpCopy} :
              n \in DOMAIN fsys /\ fsys[n] = launchIn.dir[n]
        /\ DOMAIN fsys \subseteq DOMAIN launchIn.dir \cup {tmpCopy}
        /\ (lpc = "returned" /\ deferred) => tmpCopy \notin DOMAIN fsys

\* C30 witness: launchCollection has returned a command after -k and an
\* environment were applied and the user edited the copy.
C30_Witness ==
    /\ lpc = "returned"
    /\ deferred
    /\ launchRet.err = "nil"
    /\ launchRet.cmdText # <<>>
    /\ launchIn.insecure
    /\ launchIn.envName # ""
    /\ launchIn.edited

====
